---- MODULE Spec2Model ----
(***************************************************************************)
(* A model of the cozy-apps-registry core: the LRU+TTL cache (lru/lru.go), *)
(* the publication pipeline (registry/registry.go: downloadVersion,        *)
(* CreateVersion) and the discovery layer (registry/finders.go).           *)
(***************************************************************************)
EXTENDS Integers, Sequences, FiniteSets, TLC

VARIABLES
    c,        \* the lru.Cache under test: [MaxEntries, TTL, ll, cache]
    mu,       \* owner of c.mu, or NoOwner
    pc,       \* per goroutine: the cache call it is in
    arg,      \* per goroutine: the arguments of the call it is in
    ret,      \* per goroutine: what its last completed call returned
    now,      \* the wall clock read by time.Now()
    versDB,   \* the versions database: [docs, design]
    appsDB,   \* the documents of the apps database
    written,  \* (history) per version id, the time its write was acknowledged
    pubs,     \* per publisher: where it is in the publication of a version
    cacheVersionsLatest,  \* the lru.Cache of FindLatestVersion
    cacheVersionsList,    \* the lru.Cache of FindAppVersions
    found,    \* what the last discovery call returned
    call,     \* the last call of CreateOrUpdateApp or of a function on version
              \* strings, and what it returned
    queries   \* per goroutine: the versionViewQuery call it is in

lruVars == <<c, mu, pc, arg, ret>>
regVars == <<versDB, appsDB, written, pubs, cacheVersionsLatest,
             cacheVersionsList, found, call, queries>>
vars == <<c, mu, pc, arg, ret, now, versDB, appsDB, written, pubs,
          cacheVersionsLatest, cacheVersionsList, found, call, queries>>

(***************************************************************************)
(* Bounds of the model.                                                    *)
(***************************************************************************)
MaxTime == 2

\* the entries of an archive whose names are enumerated
MaxArchiveEntries == 3

\* the revisions of an app document
MaxRev == 2

\* the bytes of a manifest or package.json, and of an ordinary small file
ManifestBytes == 64
SmallBytes == 1000

Threads == {"g1", "g2"}
Keys == {"k1", "k2", "k3"}
Values == {"v1", "v2"}
NoOwner == "none"
NoValue == "nil"

(***************************************************************************)
(* Strings.  A string is a sequence of tokens: version strings and slugs   *)
(* are sequences of characters, tar entry names are sequences of path      *)
(* segments and "/" separators.                                            *)
(***************************************************************************)

\* s[i..] starts with sub (i is 1-based)
HasPrefixAt(s, sub, i) ==
    /\ i + Len(sub) - 1 <= Len(s)
    /\ \A j \in 1..Len(sub) : s[i + j - 1] = sub[j]

\* strings.Index(s, sub): the 0-based index of the first occurrence, or -1
Index(s, sub) ==
    IF \E i \in 1..(Len(s) + 1) : HasPrefixAt(s, sub, i)
    THEN (CHOOSE i \in 1..(Len(s) + 1) :
              /\ HasPrefixAt(s, sub, i)
              /\ \A j \in 1..(i - 1) : ~HasPrefixAt(s, sub, j)) - 1
    ELSE -1

\* strings.Contains(s, sub)
Contains(s, sub) == Index(s, sub) >= 0

\* strings.SplitN(s, sep, n), for n > 0 and a non-empty sep
RECURSIVE SplitN(_, _, _)
SplitN(s, sep, n) ==
    IF n = 1 \/ Index(s, sep) < 0 THEN <<s>>
    ELSE LET i == Index(s, sep)
         IN <<SubSeq(s, 1, i)>>
            \o SplitN(SubSeq(s, i + Len(sep) + 1, Len(s)), sep, n - 1)

UpperCase ==
    [A |-> "a", B |-> "b", C |-> "c", D |-> "d", E |-> "e", F |-> "f",
     G |-> "g", H |-> "h", I |-> "i", J |-> "j", K |-> "k", L |-> "l",
     M |-> "m", N |-> "n", O |-> "o", P |-> "p", Q |-> "q", R |-> "r",
     S |-> "s", T |-> "t", U |-> "u", V |-> "v", W |-> "w", X |-> "x",
     Y |-> "y", Z |-> "z"]

\* strings.ToLower(s)
ToLower(s) ==
    [i \in 1..Len(s) |->
        IF s[i] \in DOMAIN UpperCase THEN UpperCase[s[i]] ELSE s[i]]

(***************************************************************************)
(* registry/registry.go: the version grammar                               *)
(***************************************************************************)

devSuffix == <<"-", "d", "e", "v", ".">>

betaSuffix == <<"-", "b", "e", "t", "a", ".">>

Stable == "stable"
Beta == "beta"
Dev == "dev"

\* func GetVersionChannel(version string) Channel
GetVersionChannel(version) ==
    IF Contains(version, devSuffix) THEN Dev
    ELSE IF Contains(version, betaSuffix) THEN Beta
    ELSE Stable

\* The version without its channel suffix (the first statement of
\* SplitVersion).
VersionBase(version) ==
    CASE GetVersionChannel(version) = Beta ->
            SubSeq(version, 1, Index(version, betaSuffix))
      [] GetVersionChannel(version) = Dev ->
            SubSeq(version, 1, Index(version, devSuffix))
      [] OTHER -> version

\* SplitVersion indexes s[0], s[1], s[2] of strings.SplitN(version, ".", 3):
\* with fewer than three parts it panics (index out of range).
SplitVersionPanics(version) ==
    Len(SplitN(VersionBase(version), <<".">>, 3)) < 3

\* func SplitVersion(version string) (v [3]string)
SplitVersion(version) ==
    LET s == SplitN(VersionBase(version), <<".">>, 3)
    IN <<s[1], s[2], s[3]>>

\* VersionMatch panics when SplitVersion does.
VersionMatchPanics(ver1, ver2) ==
    SplitVersionPanics(ver1) \/ SplitVersionPanics(ver2)

\* func VersionMatch(ver1, ver2 string) bool
VersionMatch(ver1, ver2) ==
    LET v1 == SplitVersion(ver1)
        v2 == SplitVersion(ver2)
    IN v1[1] = v2[1] /\ v1[2] = v2[2] /\ v1[3] = v2[3]

\* func getAppID(appSlug string) string
getAppID(appSlug) == ToLower(appSlug)

\* func getVersionID(appSlug, version string) string
getVersionID(appSlug, version) == getAppID(appSlug) \o <<"-">> \o version

(***************************************************************************)
(* registry/registry.go: downloadVersion.                                  *)
(*                                                                         *)
(* The response body is described by its tar structure: a sequence of      *)
(* entries (a 512-byte header and the contents padded to 512 bytes each),  *)
(* up to two zero blocks, and the bytes that follow the end-of-archive     *)
(* marker.  Offsets and sizes are in bytes.  A gzip body carries the same  *)
(* tar bytes between a gzip header and trailer (contents that do not       *)
(* compress); the cap, the counter and the hash always apply to the bytes  *)
(* on the wire.                                                            *)
(***************************************************************************)

\* const maxApplicationSize = 20 * 1024 * 1024
maxApplicationSize == 20 * 1024 * 1024

\* archive/tar: the block size
BlockSize == 512

\* compress/gzip: the sizes of the member header and trailer
GzipHeaderLen == 10
GzipTrailerLen == 8

\* bufio: the size of the buffer the gzip reader reads the body through
BufferSize == 4096

GzipTypes == {"application/gzip", "application/x-gzip", "application/x-tgz",
              "application/tar+gzip"}

OctetStream == "application/octet-stream"

Min(a, b) == IF a < b THEN a ELSE b
Max(a, b) == IF a > b THEN a ELSE b
RoundUp(n, k) == ((n + k - 1) \div k) * k

\* The tar bytes of one entry: header, contents, padding.
EntryLen(e) == BlockSize + RoundUp(e.size, BlockSize)

RECURSIVE EntriesLen(_, _)
EntriesLen(es, n) == IF n = 0 THEN 0 ELSE EntriesLen(es, n - 1) + EntryLen(es[n])

TarLen(b) == EntriesLen(b.entries, Len(b.entries)) + b.zeros * BlockSize + b.trailing

\* The length of the response body as transferred.
WireLen(b) ==
    IF b.gzip THEN GzipHeaderLen + TarLen(b) + GzipTrailerLen ELSE TarLen(b)

\* h := sha256.New(); h.Sum(nil) after n bytes of body b went through the
\* tee: the digest of the first n bytes of b (no collisions).
Sum(b, n) == [body |-> b.id, n |-> n]

\* hex.EncodeToString(d): the hexadecimal writing of the bytes d
HexEncode(d) == [hex |-> d]

\* shasum, _ := hex.DecodeString(opts.Sha256): the bytes a well-formed
\* hexadecimal string writes
HexDecode(str) == str.hex

\* The reader stack built from the Content-Type (lines 460-478).
\*   "gzip":    the tar reader reads through a gzip reader;
\*   "gzerr":   a mandatory gzip reader could not be initialized;
\*   "rawskip": gzip.NewReader failed on an octet-stream body after its
\*              buffered reader consumed the first bytes of the stream;
\*   "raw":     the tar reader reads the tee directly.
ReaderMode(resp) ==
    IF resp.ctype \in GzipTypes
    THEN IF resp.body.gzip THEN "gzip" ELSE "gzerr"
    ELSE IF resp.ctype = OctetStream
    THEN IF resp.body.gzip THEN "gzip" ELSE "rawskip"
    ELSE "raw"

\* What the tar reader can read: env.Lt tar bytes, then the end of the
\* stream.  io.LimitReader ends a raw stream with io.EOF; a gzip stream cut
\* by the limiter ends with io.ErrUnexpectedEOF.
ReadEnv(resp) ==
    LET b == resp.body
    IN IF ReaderMode(resp) = "gzip"
       THEN [Lt |-> Min(TarLen(b), Max(0, maxApplicationSize - GzipHeaderLen)),
             cut |-> WireLen(b) > maxApplicationSize]
       ELSE [Lt |-> Min(TarLen(b), maxApplicationSize), cut |-> FALSE]

\* io.ReadFull of n bytes at tar offset pos.
ReadFull(env, pos, n) ==
    IF env.Lt - pos >= n THEN "ok"
    ELSE IF env.cut THEN "unexpected"
    ELSE IF env.Lt - pos = 0 THEN "eof"
    ELSE "unexpected"

\* tar.Reader.Next discarding the unread contents and padding of the
\* previous entry, from tar offset pos.
SkipData(env, pos, size) ==
    IF env.Lt - pos >= RoundUp(size, BlockSize) THEN "ok"
    ELSE IF env.Lt - pos < size \/ env.cut THEN "unexpected"
    ELSE "eof"

\* if split := strings.SplitN(name, "/", 2); len(split) == 2 { ... }
NextPrefix(prefix, name) ==
    LET split == SplitN(name, <<"/">>, 2)
    IN IF Len(split) = 2
       THEN IF prefix = <<>> THEN split[1]
            ELSE IF prefix # split[1] THEN <<>>
            ELSE prefix
       ELSE prefix

\* The name the entry is known by after the top segment is stripped.
LogicalName(name) ==
    LET split == SplitN(name, <<"/">>, 2)
    IN IF Len(split) = 2 THEN split[2] ELSE name

IsManifestName(name) ==
    name = <<"manifest.webapp">> \/ name = <<"manifest.konnector">>

NoContent == [kind |-> "empty", editor |-> [ok |-> FALSE, s |-> <<>>],
              slug |-> [ok |-> FALSE, s |-> <<>>],
              version |-> [ok |-> FALSE, s |-> <<>>]]

WalkInit(pos) ==
    [pos |-> pos, end |-> "", hitEnd |-> FALSE, prefix |-> <<>>, appType |-> "",
     manifest |-> NoContent, packVersion |-> <<>>]

\* One pass of the loop over tarReader.Next() (lines 484-548) on entry
\* e = b.entries[i], whose name without its top segment is name: the state
\* of the loop after it, with end set when the loop ends there.
WalkEntry(env, st, e, name) ==
    LET hdr == ReadFull(env, st.pos, BlockSize)
        p1 == st.pos + BlockSize
        seen == e.typeflag \in {"reg", "dir"}
        isManifest == seen /\ IsManifestName(name)
        isPackage == seen /\ name = <<"package.json">>
        readAll == env.Lt - p1 >= e.size
        skip == SkipData(env, p1, e.size)
    IN IF hdr = "eof"
       THEN [st EXCEPT !.end = "eof", !.hitEnd = TRUE, !.pos = env.Lt]
       ELSE IF hdr = "unexpected" THEN [st EXCEPT !.end = "toobig"]
       ELSE IF (isManifest \/ isPackage) /\ ~readAll
       THEN [st EXCEPT !.end = "read"]
       ELSE IF isPackage /\ e.content.kind # "object"
       THEN [st EXCEPT !.end = "packjson"]
       ELSE [st EXCEPT
               !.prefix = IF seen THEN NextPrefix(st.prefix, e.name) ELSE @,
               !.appType = IF ~isManifest THEN @
                           ELSE IF name = <<"manifest.webapp">>
                           THEN "webapp" ELSE "konnector",
               !.manifest = IF isManifest THEN e.content ELSE @,
               !.packVersion = IF isPackage THEN e.content.version.s ELSE @,
               !.end = IF skip = "unexpected" THEN "toobig"
                       ELSE IF skip = "eof" THEN "eof" ELSE @,
               !.hitEnd = skip = "eof",
               !.pos = IF skip = "ok" THEN p1 + RoundUp(e.size, BlockSize)
                       ELSE IF skip = "eof" THEN env.Lt ELSE @]

\* tarReader.Next() behind the last entry: the end-of-archive blocks, or
\* the end of the stream.
WalkEnd(b, env, st) ==
    LET r1 == IF b.zeros >= 1 THEN ReadFull(env, st.pos, BlockSize)
              ELSE ReadFull(env, st.pos, 1)
        r2 == IF b.zeros >= 2 THEN ReadFull(env, st.pos + BlockSize, BlockSize)
              ELSE ReadFull(env, st.pos + BlockSize, 1)
    IN IF r1 = "unexpected" THEN [st EXCEPT !.end = "toobig"]
       ELSE IF r1 = "eof" \/ b.zeros = 0
       THEN [st EXCEPT !.end = "eof", !.hitEnd = TRUE, !.pos = env.Lt]
       ELSE IF r2 = "unexpected" THEN [st EXCEPT !.end = "toobig"]
       ELSE IF r2 = "eof" \/ b.zeros = 1
       THEN [st EXCEPT !.end = "eof", !.hitEnd = TRUE, !.pos = env.Lt]
       ELSE [st EXCEPT !.end = "eof", !.pos = st.pos + 2 * BlockSize]

\* The loop over tarReader.Next() (lines 484-548), from entry i at tar offset
\* st.pos.  It ends with st.end = "eof" (the loop breaks), or with the kind
\* of the error it returns.
RECURSIVE Walk(_, _, _, _)
Walk(b, env, i, st) ==
    IF st.end # "" THEN st
    ELSE IF i > Len(b.entries) THEN WalkEnd(b, env, st)
    ELSE Walk(b, env, i + 1,
              WalkEntry(env, st, b.entries[i], LogicalName(b.entries[i].name)))

\* Where the tar reader starts: at the first byte, or, in mode "rawskip",
\* behind the first fill bytes of the stream, which the failed
\* gzip.NewReader has taken; it finds a header there only when an entry
\* starts at that offset.
StartOf(resp, env, start) ==
    LET b == resp.body
    IN IF ReaderMode(resp) = "raw" /\ b.gzip
       THEN \* the tar reader is given compressed bytes: tar.ErrHeader
            [i |-> 1, st |-> [WalkInit(0) EXCEPT !.end = "header"]]
       ELSE IF ReaderMode(resp) # "rawskip" THEN [i |-> 1, st |-> WalkInit(0)]
       ELSE IF \E i \in 1..Len(b.entries) : EntriesLen(b.entries, i - 1) = start
       THEN [i |-> CHOOSE i \in 1..Len(b.entries) :
                       EntriesLen(b.entries, i - 1) = start,
             st |-> WalkInit(start)]
       ELSE IF start >= EntriesLen(b.entries, Len(b.entries))
       THEN [i |-> 1, st |-> [WalkInit(env.Lt) EXCEPT !.end = "eof", !.hitEnd = TRUE]]
       ELSE [i |-> 1, st |-> [WalkInit(start) EXCEPT !.end = "header"]]

WalkFrom(b, env, from) == Walk(b, env, from.i, from.st)

\* The traversal of the whole body.
Traverse(resp, fill) ==
    WalkFrom(resp.body, ReadEnv(resp),
             StartOf(resp, ReadEnv(resp), Min(fill, ReadEnv(resp).Lt)))

\* The number of body bytes that went through the limiter, the counter and
\* the hasher when the loop ends in state st.  The tar reader reads exactly
\* the blocks it needs; the gzip reader reads the wire through a buffer
\* that is filled fill bytes at a time.
Written(resp, fill, st) ==
    LET limit == Min(WireLen(resp.body), maxApplicationSize)
    IN CASE ReaderMode(resp) = "gzip" ->
              IF st.hitEnd THEN limit
              ELSE Min(limit, RoundUp(GzipHeaderLen + st.pos, fill))
         [] ReaderMode(resp) = "rawskip" -> Max(st.pos, Min(fill, limit))
         [] OTHER -> st.pos

Consumed(resp, fill) == Written(resp, fill, Traverse(resp, fill))

\* The version checks of the reconciliation block (lines 583-609).
ManifestVersionMatch(opts, m) ==
    IF ~m.version.ok THEN FALSE
    ELSE IF GetVersionChannel(opts.Version) # Dev THEN opts.Version = m.version.s
    ELSE VersionMatch(opts.Version, m.version.s)

PackVersionMatch(opts, packVersion) ==
    IF GetVersionChannel(opts.Version) # Dev THEN opts.Version # packVersion
    ELSE VersionMatch(opts.Version, packVersion)

\* The reconciliation panics where VersionMatch does.
ReconcilePanics(opts, m, packVersion) ==
    /\ GetVersionChannel(opts.Version) = Dev
    /\ \/ m.version.ok /\ VersionMatchPanics(opts.Version, m.version.s)
       \/ packVersion # <<>> /\ VersionMatchPanics(opts.Version, packVersion)

\* errm: the errors accumulated by lines 570-610.
ReconcileErrors(opts, m, packVersion) ==
    (IF ~m.editor.ok \/ m.editor.s = <<>> THEN {"editor"} ELSE {})
    \cup (IF ~m.slug.ok \/ m.slug.s = <<>> THEN {"slug"} ELSE {})
    \cup (IF ~ManifestVersionMatch(opts, m) THEN {"version"} ELSE {})
    \cup (IF packVersion # <<>> /\ ~PackVersionMatch(opts, packVersion)
          THEN {"package.json"} ELSE {})

\* errshttp.NewError(http.StatusUnprocessableEntity, ...)
Unprocessable(msg) == [outcome |-> "error", code |-> 422, msg |-> msg, ver |-> <<>>]

\* A runtime panic unwinds downloadVersion: it returns nothing.
Panicked == [outcome |-> "panic", code |-> 0, msg |-> "index out of range", ver |-> <<>>]

\* downloadVersion from the response on: the checks of lines 446-478 and
\* of lines 484-629 on the state st in which the loop ended, with size
\* bytes counted, at time t.
Checked(opts, resp, st, size, t) ==
    IF resp.fetch # "ok" THEN Unprocessable("unreachable")
    ELSE IF resp.status # 200 THEN Unprocessable("status")
    ELSE IF ReaderMode(resp) = "gzerr" THEN Unprocessable("gzip")
    ELSE IF st.end = "toobig" THEN Unprocessable("file is too big")
    ELSE IF st.end = "packjson" THEN Unprocessable("package.json")
    ELSE IF st.end # "eof" THEN Unprocessable("read")
    ELSE IF HexDecode(opts.Sha256) # Sum(resp.body, size)
    THEN Unprocessable("checksum")
    ELSE IF st.manifest.kind = "empty" THEN Unprocessable("no manifest")
    ELSE IF st.manifest.kind # "object" THEN Unprocessable("manifest json")
    ELSE IF ReconcilePanics(opts, st.manifest, st.packVersion) THEN Panicked
    ELSE IF ReconcileErrors(opts, st.manifest, st.packVersion) # {}
    THEN Unprocessable("manifest does not match")
    ELSE [outcome |-> "ok", code |-> 0, msg |-> "",
          ver |-> <<[ID |-> getVersionID(st.manifest.slug.s, opts.Version),
                     Rev |-> 0,
                     Slug |-> st.manifest.slug.s,
                     Editor |-> st.manifest.editor.s,
                     Type |-> st.appType,
                     Version |-> opts.Version,
                     Manifest |-> st.manifest,
                     CreatedAt |-> t,
                     URL |-> opts.URL,
                     Size |-> size,
                     Sha256 |-> opts.Sha256,
                     TarPrefix |-> st.prefix]>>]

\* func downloadVersion(opts *VersionOptions) (ver *Version, err error), on
\* the response resp to the GET of opts.URL, at time t; fill is the number
\* of bytes a buffered reader takes from the body in one read.
downloadVersion(opts, resp, fill, t) ==
    Checked(opts, resp, Traverse(resp, fill), Consumed(resp, fill), t)

(***************************************************************************)
(* lru/lru.go                                                              *)
(***************************************************************************)

\* container/list operations on the recency list; index 1 is the front.
ListRemove(ll, i) == SubSeq(ll, 1, i - 1) \o SubSeq(ll, i + 1, Len(ll))

MoveToFront(ll, i) == <<ll[i]>> \o ListRemove(ll, i)

PushFront(ll, e) == <<e>> \o ll

\* The list element the map entry of key k points to.
ElementOf(ll, k) == CHOOSE i \in 1..Len(ll) : ll[i].key = k

\* type entry struct {key; value; date}
entry(k, v, d) == [key |-> k, value |-> v, date |-> d]

\* lru.New(maxEntries, ttl)
New(maxEntries, ttl) ==
    [MaxEntries |-> maxEntries, TTL |-> ttl, ll |-> <<>>, cache |-> {}]

\* (mutant) removeElement without delete(c.cache, kv.key)
removeElementFromList(cc, i) == [cc EXCEPT !.ll = ListRemove(cc.ll, i)]

\* func (c *Cache) removeElement(e): c.ll.Remove(e); delete(c.cache, kv.key)
removeElement(cc, i) ==
    [cc EXCEPT !.ll = ListRemove(cc.ll, i),
               !.cache = cc.cache \ {cc.ll[i].key}]

\* The body of Add up to the call of RemoveOldest: the hit branch updates
\* the element in place, the miss branch pushes a new element.
AddInsert(cc, k, v, t) ==
    IF k \in cc.cache
    THEN LET i == ElementOf(cc.ll, k)
         IN [cc EXCEPT !.ll = [MoveToFront(cc.ll, i) EXCEPT
                                  ![1] = entry(k, v, t)]]
    ELSE [cc EXCEPT !.ll = PushFront(cc.ll, entry(k, v, t)),
                    !.cache = cc.cache \cup {k}]

\* if c.MaxEntries != 0 && c.ll.Len() > c.MaxEntries { c.RemoveOldest() },
\* evaluated in the miss branch only.
AddOverflows(cc, k) ==
    /\ k \notin cc.cache
    /\ cc.MaxEntries # 0
    /\ Len(cc.ll) + 1 > cc.MaxEntries

\* (mutant) the expiry test off by one: an entry of age TTL is expired
FreshStrict(cc, e, t) == cc.TTL = 0 \/ t - e.date < cc.TTL

\* if c.TTL == 0 || time.Since(date) <= c.TTL
Fresh(cc, e, t) == cc.TTL = 0 \/ t - e.date <= cc.TTL

\* The body of Get under the mutex: the cache afterwards.
GetCache(cc, k, t) ==
    IF k \notin cc.cache THEN cc
    ELSE LET i == ElementOf(cc.ll, k)
         IN IF Fresh(cc, cc.ll[i], t)
            THEN [cc EXCEPT !.ll = [MoveToFront(cc.ll, i) EXCEPT
                                      ![1].date = t]]
            ELSE removeElement(cc, i)

\* The body of Get under the mutex: (value, ok).
GetResult(cc, k, t) ==
    IF k \in cc.cache /\ Fresh(cc, cc.ll[ElementOf(cc.ll, k)], t)
    THEN [value |-> cc.ll[ElementOf(cc.ll, k)].value, ok |-> TRUE]
    ELSE [value |-> NoValue, ok |-> FALSE]

\* The body of Remove under the mutex.
RemoveCache(cc, k) ==
    IF k \in cc.cache THEN removeElement(cc, ElementOf(cc.ll, k)) ELSE cc

\* The body of RemoveOldest under the mutex: c.ll.Back() is the last index.
RemoveOldestCache(cc) ==
    IF Len(cc.ll) > 0 THEN removeElement(cc, Len(cc.ll)) ELSE cc

(***************************************************************************)
(* registry/registry.go, registry/finders.go: validation and the stores.   *)
(***************************************************************************)

Digits == {"0", "1", "2", "3", "4", "5", "6", "7", "8", "9"}

Letters == DOMAIN UpperCase \cup {UpperCase[x] : x \in DOMAIN UpperCase}

HexLower == Digits \cup {"a", "b", "c", "d", "e", "f"}

\* validSlugReg = `^[A-Za-z][A-Za-z0-9\-]*$`
validSlugReg(s) ==
    /\ Len(s) >= 1
    /\ s[1] \in Letters
    /\ \A i \in 2..Len(s) : s[i] \in Letters \cup Digits \cup {"-"}

\* (0|[1-9][0-9]{0,4})
IsNumber(s) ==
    \/ s = <<"0">>
    \/ /\ Len(s) \in 1..5
       /\ s[1] \in Digits \ {"0"}
       /\ \A i \in 2..Len(s) : s[i] \in Digits

\* (-dev\.[a-f0-9]{1,40}|-beta.(0|[1-9][0-9]{0,4})): the dot after -beta is
\* not escaped and matches any character.
IsPreRelease(s) ==
    \/ /\ Len(s) \in 6..45
       /\ SubSeq(s, 1, 5) = devSuffix
       /\ \A i \in 6..Len(s) : s[i] \in HexLower
    \/ /\ Len(s) >= 7
       /\ SubSeq(s, 1, 5) = SubSeq(betaSuffix, 1, 5)
       /\ IsNumber(SubSeq(s, 7, Len(s)))

\* validVersionReg
validVersionReg(s) ==
    \E i \in 1..Len(s), j \in 1..Len(s), k \in 1..Len(s) :
        /\ i < j /\ j < k
        /\ s[i] = "." /\ s[j] = "."
        /\ IsNumber(SubSeq(s, 1, i - 1))
        /\ IsNumber(SubSeq(s, i + 1, j - 1))
        /\ IsNumber(SubSeq(s, j + 1, k))
        /\ (k = Len(s) \/ IsPreRelease(SubSeq(s, k + 1, Len(s))))

\* validAppTypes
validAppTypes == {"webapp", "konnector"}

\* time.Time{}: the zero time, before every reading of the clock
ZeroTime == 0 - 1

\* func IsValidApp(app *App) error
IsValidApp(app) ==
    IF app.Slug = <<>> \/ ~validSlugReg(app.Slug) THEN "ErrAppInvalid"
    ELSE IF app.Editor = <<>> \/ app.Type \notin validAppTypes THEN "Invalid application"
    ELSE ""

\* A database with no document.  VersDB holds the version documents (docs)
\* and the design documents of the views (design).
EmptyDB == [docs |-> {}, design |-> {}]

\* db.Get(ctx, id) on the documents docs
HasDoc(docs, id) == \E d \in docs : d.ID = id

GetDoc(docs, id) == CHOOSE d \in docs : d.ID = id

\* db.CreateDoc(ctx, doc): the store refuses a second document with the id
\* of a stored one (409 Conflict); the stored document gets its first
\* revision.
CreateDocConflicts(docs, doc) == HasDoc(docs, doc.ID)

CreateDoc(docs, doc) == docs \cup {[doc EXCEPT !.Rev = 1]}

\* db.Put(ctx, id, doc) with the revision of the stored document
Put(docs, doc) ==
    (docs \ {GetDoc(docs, doc.ID)}) \cup {[doc EXCEPT !.Rev = doc.Rev + 1]}

\* func findApp(appSlug string) (*App, error)
findApp(appSlug, apps) ==
    IF ~validSlugReg(appSlug) THEN [err |-> "ErrAppSlugInvalid", doc |-> <<>>]
    ELSE IF HasDoc(apps, getAppID(appSlug))
    THEN [err |-> "", doc |-> <<GetDoc(apps, getAppID(appSlug))>>]
    ELSE [err |-> "ErrAppNotFound", doc |-> <<>>]

\* func findVersion(appSlug, version string, dbs ...*kivik.DB): the pending
\* versions database has no writer in this code and stays empty.
findVersion(appSlug, version, docs) ==
    IF ~validSlugReg(appSlug) THEN [err |-> "ErrAppSlugInvalid", doc |-> <<>>]
    ELSE IF ~validVersionReg(version) THEN [err |-> "ErrVersionInvalid", doc |-> <<>>]
    ELSE IF HasDoc(docs, getVersionID(appSlug, version))
    THEN [err |-> "", doc |-> <<GetDoc(docs, getVersionID(appSlug, version))>>]
    ELSE [err |-> "ErrVersionNotFound", doc |-> <<>>]

\* The document CreateOrUpdateApp creates for a slug that is not stored.
NewApp(app, editor, t) ==
    [ID |-> getAppID(app.Slug), Rev |-> 0, Slug |-> getAppID(app.Slug),
     Type |-> app.Type, Editor |-> editor,
     Category |-> app.Category, CreatedAt |-> t, UpdatedAt |-> t]

\* MergedApp taking the type from the request instead of the stored
\* document.
MergedAppOwnType(app, oldApp, editor) ==
    [ID |-> oldApp.ID, Rev |-> oldApp.Rev, Slug |-> oldApp.Slug,
     Type |-> app.Type, Editor |-> editor,
     Category |-> IF app.Category = "" THEN oldApp.Category ELSE app.Category,
     CreatedAt |-> oldApp.CreatedAt, UpdatedAt |-> app.UpdatedAt]

\* The document CreateOrUpdateApp compares with the stored one, oldApp.
MergedApp(app, oldApp, editor) ==
    [ID |-> oldApp.ID, Rev |-> oldApp.Rev, Slug |-> oldApp.Slug,
     Type |-> oldApp.Type, Editor |-> editor,
     Category |-> IF app.Category = "" THEN oldApp.Category ELSE app.Category,
     CreatedAt |-> oldApp.CreatedAt, UpdatedAt |-> app.UpdatedAt]

(***************************************************************************)
(* registry/registry.go: the views of the versions database.  Keys are     *)
(* JSON arrays of JSON values [t, n, s]; CouchDB collates null before      *)
(* numbers before strings, arrays element by element, equal keys by        *)
(* document id.                                                            *)
(***************************************************************************)

DigitSeq == <<"0", "1", "2", "3", "4", "5", "6", "7", "8", "9">>

DigitValue == [d \in Digits |-> (CHOOSE n \in 1..10 : DigitSeq[n] = d) - 1]

\* NaN
NaN == 0 - 1

RECURSIVE ParseDigits(_, _)
ParseDigits(s, acc) ==
    IF s = <<>> \/ Head(s) \notin Digits THEN acc
    ELSE ParseDigits(Tail(s), 10 * acc + DigitValue[Head(s)])

\* parseInt(s, 10): the number written by the leading digits of s
parseInt(s) ==
    IF s = <<>> \/ Head(s) \notin Digits THEN NaN ELSE ParseDigits(s, 0)

\* String.prototype.split(sep)
split(s, sep) == SplitN(s, sep, Len(s) + 1)

\* sp[i] of a JavaScript array: undefined (here the empty string) beyond
\* its length
At(sp, i) == IF i <= Len(sp) THEN sp[i] ELSE <<>>

JsNull == [t |-> "null", n |-> 0, s |-> <<>>]
JsNumber(n) == [t |-> "number", n |-> n, s |-> <<>>]
JsString(s) == [t |-> "string", n |-> 0, s |-> s]

\* function expandVersion(doc)
expandVersion(doc) ==
    LET Expand(sp, channel) ==
            LET Key(sp2) ==
                    [v |-> <<JsNumber(parseInt(At(sp, 1))),
                             JsNumber(parseInt(At(sp, 2))),
                             JsNumber(parseInt(sp2[1]))>>,
                     channel |-> channel,
                     code |-> IF channel = Stable THEN 1 ELSE 0,
                     exp |-> IF channel # Beta THEN JsNumber(0)
                             ELSE IF Len(sp2) >= 2 THEN JsString(sp2[2])
                             ELSE JsNull,
                     date |-> doc.CreatedAt]
            IN Key(IF channel = Beta THEN split(At(sp, 3), betaSuffix)
                   ELSE IF channel = Dev THEN split(At(sp, 3), devSuffix)
                   ELSE <<At(sp, 3)>>)
    IN Expand(split(doc.Version, <<".">>), GetVersionChannel(doc.Version))

\* Whether the map function of the view emits a row for doc.
ViewEmits(doc, view) ==
    LET Emits(channel) ==
            CASE view = Dev -> TRUE
              [] view = Beta -> channel \in {Beta, Stable}
              [] OTHER -> channel = Stable
    IN Emits(expandVersion(doc).channel)

\* The key of the row the map function of the view emits for doc.
ViewKey(doc, view) ==
    LET Key(version) ==
            CASE view = Dev ->
                   version.v \o <<JsNumber(version.code), JsNumber(version.date)>>
              [] view = Beta ->
                   version.v \o <<JsNumber(version.code), version.exp>>
              [] OTHER -> version.v
    IN Key(expandVersion(doc))

\* The collation order of the characters of document ids.
CollationOrder ==
    <<"-", ".", "0", "1", "2", "3", "4", "5", "6", "7", "8", "9", "a", "b",
      "c", "d", "e", "f", "g", "h", "i", "j", "k", "l", "m", "n", "o", "p",
      "q", "r", "s", "t", "u", "v", "w", "x", "y", "z">>

CharRank(ch) ==
    IF \E i \in 1..Len(CollationOrder) : CollationOrder[i] = ch
    THEN CHOOSE i \in 1..Len(CollationOrder) : CollationOrder[i] = ch
    ELSE 0

RECURSIVE StringLess(_, _)
StringLess(a, b) ==
    IF b = <<>> THEN FALSE
    ELSE IF a = <<>> THEN TRUE
    ELSE IF Head(a) # Head(b) THEN CharRank(Head(a)) < CharRank(Head(b))
    ELSE StringLess(Tail(a), Tail(b))

TypeRank(x) == IF x.t = "null" THEN 0 ELSE IF x.t = "number" THEN 1 ELSE 2

ValueLess(x, y) ==
    \/ TypeRank(x) < TypeRank(y)
    \/ /\ x.t = y.t
       /\ \/ x.t = "number" /\ x.n < y.n
          \/ x.t = "string" /\ StringLess(x.s, y.s)

RECURSIVE KeyLess(_, _)
KeyLess(a, b) ==
    IF b = <<>> THEN FALSE
    ELSE IF a = <<>> THEN TRUE
    ELSE IF Head(a) # Head(b) THEN ValueLess(Head(a), Head(b))
    ELSE KeyLess(Tail(a), Tail(b))

\* The order of the rows of a view.
RowLess(d1, d2, view) ==
    LET Less(k1, k2) == KeyLess(k1, k2) \/ (k1 = k2 /\ StringLess(d1.ID, d2.ID))
    IN Less(ViewKey(d1, view), ViewKey(d2, view))

\* The last of the rows of a view, if any.
LastRow(rows, view) ==
    IF rows = {} THEN <<>>
    ELSE <<CHOOSE d \in rows : \A e \in rows \ {d} : RowLess(e, d, view)>>

\* db.Query(ctx, versViewDocName(appSlug), channel, {limit: 1, descending:
\* true, include_docs: true}): the documents of the rows returned.  The map
\* functions do not look at doc.slug.
QueryLatest(docs, view) == LastRow({d \in docs : ViewEmits(d, view)}, view)

\* func versViewDocName(appName string) string, as the id of the design
\* document createViews puts
versViewDocName(appName) == <<"_design/versions-">> \o appName

\* func channelToStr(channel Channel) string
channelToStr(channel) == channel

\* 5*time.Minute, the TTL of the registry caches: the clock of the model
\* counts periods of five minutes.
cacheTTL == 1

\* The capacity of the registry caches.
cacheSize == 256

\* The versions database after versionViewQuery(db, appSlug, ...): a query
\* of views that are not installed answers 404, createVersionsViews puts
\* the design document, and the query is issued again.
versionViewQuery(db, appSlug) ==
    [db EXCEPT !.design = @ \cup {versViewDocName(appSlug)}]

\* lru.Key(appSlug + "/" + channelStr)
cacheKey(appSlug, channel) == appSlug \o <<"/">> \o <<channelToStr(channel)>>

\* FindLatestVersion without the cacheVersionsLatest.Add of a found version.
FindLatestVersionUncached(cache, db, appSlug, channel, t) ==
    LET Result(key, got, afterGet, rows) ==
            IF ~validSlugReg(appSlug)
            THEN [cache |-> cache, db |-> db, hit |-> FALSE,
                  err |-> "ErrAppSlugInvalid", ver |-> <<>>]
            ELSE IF got.ok
            THEN [cache |-> afterGet, db |-> db, hit |-> TRUE,
                  err |-> "", ver |-> <<got.value>>]
            ELSE IF rows = <<>>
            THEN [cache |-> afterGet, db |-> versionViewQuery(db, appSlug),
                  hit |-> FALSE, err |-> "ErrVersionNotFound", ver |-> <<>>]
            ELSE [cache |-> afterGet,
                  db |-> versionViewQuery(db, appSlug),
                  hit |-> FALSE, err |-> "",
                  ver |-> <<[rows[1] EXCEPT !.ID = <<>>, !.Rev = 0]>>]
    IN Result(cacheKey(appSlug, channel),
              GetResult(cache, cacheKey(appSlug, channel), t),
              GetCache(cache, cacheKey(appSlug, channel), t),
              QueryLatest(db.docs, channel))

\* FindLatestVersion(appSlug, channel) at time t: the cache and the versions
\* database it leaves, and what it returns.  On a hit the cached bytes are
\* unmarshalled as they are; on a miss the row's document is cached as it
\* came and returned without its _id and _rev.  (The cache holds fewer keys
\* than its capacity: Add evicts nothing.)
FindLatestVersionResult(cache, db, appSlug, channel, t) ==
    LET Result(key, got, afterGet, rows) ==
            IF ~validSlugReg(appSlug)
            THEN [cache |-> cache, db |-> db, hit |-> FALSE,
                  err |-> "ErrAppSlugInvalid", ver |-> <<>>]
            ELSE IF got.ok
            THEN [cache |-> afterGet, db |-> db, hit |-> TRUE,
                  err |-> "", ver |-> <<got.value>>]
            ELSE IF rows = <<>>
            THEN [cache |-> afterGet, db |-> versionViewQuery(db, appSlug),
                  hit |-> FALSE, err |-> "ErrVersionNotFound", ver |-> <<>>]
            ELSE [cache |-> AddInsert(afterGet, key, rows[1], t),
                  db |-> versionViewQuery(db, appSlug),
                  hit |-> FALSE, err |-> "",
                  ver |-> <<[rows[1] EXCEPT !.ID = <<>>, !.Rev = 0]>>]
    IN Result(cacheKey(appSlug, channel),
              GetResult(cache, cacheKey(appSlug, channel), t),
              GetCache(cache, cacheKey(appSlug, channel), t),
              QueryLatest(db.docs, channel))

\* The rows of a view in ascending order.
RECURSIVE SortRows(_, _)
SortRows(rows, view) ==
    LET Cons(first) == <<first>> \o SortRows(rows \ {first}, view)
    IN IF rows = {} THEN <<>>
       ELSE Cons(CHOOSE d \in rows : \A e \in rows \ {d} : RowLess(d, e, view))

\* allVersions of FindAppVersions: make([]string, int(rows.TotalRows()))
\* followed by the appended value of every row ({limit: 2000, descending:
\* false}).
AllVersions(docs, view) ==
    LET RowValues(rows) ==
            [i \in 1..Len(rows) |-> <<>>]
            \o [i \in 1..Len(rows) |-> rows[i].Version]
    IN RowValues(SortRows({d \in docs : ViewEmits(d, view)}, view))

\* The switch on the channel of FindAppVersions.
AppVersionsOf(allVersions, channel) ==
    LET IsStable(v) == GetVersionChannel(v) = Stable
    IN CASE channel = Stable ->
              [Stable |-> allVersions, Beta |-> <<>>, Dev |-> <<>>]
         [] channel = Beta ->
              [Stable |-> SelectSeq(allVersions, IsStable),
               Beta |-> allVersions, Dev |-> <<>>]
         [] OTHER ->
              [Stable |-> SelectSeq(allVersions, IsStable),
               Beta |-> allVersions, Dev |-> allVersions]

\* FindAppVersions(appSlug, channel) at time t: the cache and the versions
\* database it leaves, and what it returns.
FindAppVersionsResult(cache, db, appSlug, channel, t) ==
    LET Result(key, got, afterGet) ==
            IF got.ok
            THEN [cache |-> afterGet, db |-> db, hit |-> TRUE,
                  versions |-> got.value]
            ELSE LET Miss(versions) ==
                         [cache |-> AddInsert(afterGet, key, versions, t),
                          db |-> versionViewQuery(db, appSlug),
                          hit |-> FALSE, versions |-> versions]
                 IN Miss(AppVersionsOf(AllVersions(db.docs, channel), channel))
    IN Result(cacheKey(appSlug, channel),
              GetResult(cache, cacheKey(appSlug, channel), t),
              GetCache(cache, cacheKey(appSlug, channel), t))

(***************************************************************************)
(* The registry: its state and the steps of its operations.                *)
(***************************************************************************)

\* Neither CreateOrUpdateApp nor a function on version strings was called
\* yet.
NoCall == [op |-> "none", args |-> <<>>, res |-> <<>>]

\* No goroutine is in versionViewQuery.
NoQueries ==
    [g \in Threads |->
        [pc |-> "idle", appSlug |-> <<>>, channel |-> "", asked |-> 0,
         created |-> 0, last |-> "", fault |-> FALSE, err |-> ""]]

NoFound ==
    [op |-> "none", slug |-> <<>>, channel |-> "", at |-> 0, hit |-> FALSE,
     err |-> "", ver |-> <<>>, versions |-> <<>>]

\* A publisher that is in no call.
Idle == [pc |-> "idle", in |-> <<>>, res |-> <<>>, ver |-> <<>>,
         app |-> <<>>, err |-> ""]

\* The publication handler calls DownloadVersion(opts); the response to the
\* GET of opts.URL is in.resp.
Download(p, in) ==
    /\ pubs[p].pc = "idle"
    /\ \E res \in {downloadVersion(in.opts, in.resp, in.fill, now)} :
           pubs' = [pubs EXCEPT ![p] =
                      [pc |-> IF res.outcome = "ok" THEN "downloaded" ELSE "failed",
                       in |-> <<in>>, res |-> <<res>>, ver |-> res.ver,
                       app |-> <<>>, err |-> ""]]
    /\ UNCHANGED <<lruVars, queries, call, now, versDB, appsDB, written,
                   cacheVersionsLatest, cacheVersionsList, found>>

\* CreateVersion(ver, app), lines 408-418: the existence check, and the
\* fields taken from the app.
CreateVersionFind(p, app) ==
    /\ pubs[p].pc = "downloaded"
    /\ app \in appsDB
    /\ \E ver \in {pubs[p].ver[1]} :
       \E f \in {findVersion(ver.Slug, ver.Version, versDB.docs)} :
          pubs' = [pubs EXCEPT ![p] =
                     IF f.err # "ErrVersionNotFound"
                     THEN [@ EXCEPT !.pc = "done", !.app = <<app>>,
                                    !.err = IF f.err = ""
                                            THEN "ErrVersionAlreadyExists"
                                            ELSE f.err]
                     ELSE [@ EXCEPT !.pc = "CreateDoc", !.app = <<app>>,
                                    !.ver = <<[ver EXCEPT !.Slug = app.Slug,
                                                          !.Type = app.Type,
                                                          !.Editor = app.Editor]>>]]
    /\ UNCHANGED <<lruVars, queries, call, now, versDB, appsDB, written,
                   cacheVersionsLatest, cacheVersionsList, found>>

\* CreateVersion, lines 420-425: db.CreateDoc(ctx, ver) and its error.
CreateVersionCreateDoc(p) ==
    /\ pubs[p].pc = "CreateDoc"
    /\ LET ver == pubs[p].ver[1]
       IN IF CreateDocConflicts(versDB.docs, ver)
          THEN /\ pubs' = [pubs EXCEPT ![p].pc = "done", ![p].err = "Conflict"]
               /\ UNCHANGED <<versDB, written>>
          ELSE /\ pubs' = [pubs EXCEPT ![p].pc = "done", ![p].err = ""]
               /\ versDB' = [versDB EXCEPT !.docs = CreateDoc(@, ver)]
               /\ written' = [id \in DOMAIN written \cup {ver.ID} |->
                                 IF id = ver.ID THEN now ELSE written[id]]
    /\ UNCHANGED <<lruVars, queries, call, now, appsDB, cacheVersionsLatest,
                   cacheVersionsList, found>>

\* The handler answers and the publisher is free again.
Return(p) ==
    /\ pubs[p].pc \in {"done", "failed"}
    /\ pubs' = [pubs EXCEPT ![p] = Idle]
    /\ UNCHANGED <<lruVars, queries, call, now, versDB, appsDB, written,
                   cacheVersionsLatest, cacheVersionsList, found>>

\* func CreateOrUpdateApp(app *App, editor *auth.Editor), with editor the
\* name of the editor.  After an update it calls FindAppVersions (here on
\* the dev view, which holds every version).  call keeps the arguments and
\* the updated flag it returned.
CreateOrUpdateApp(app, editor) ==
    /\ IsValidApp(app) = ""
    /\ \E old \in {findApp(app.Slug, appsDB)} :
          IF old.err = "ErrAppNotFound"
          THEN /\ appsDB' = CreateDoc(appsDB, NewApp(app, editor, now))
               /\ call' = [op |-> "CreateOrUpdateApp", args |-> <<app, editor>>,
                           res |-> <<TRUE>>]
               /\ UNCHANGED <<versDB, cacheVersionsList>>
          ELSE \E oldApp \in {old.doc[1]} :
               \E merged \in {MergedApp(app, oldApp, editor)} :
                  IF merged = [oldApp EXCEPT !.UpdatedAt = ZeroTime]
                  THEN /\ call' = [op |-> "CreateOrUpdateApp",
                                   args |-> <<app, editor>>, res |-> <<FALSE>>]
                       /\ UNCHANGED <<appsDB, versDB, cacheVersionsList>>
                  ELSE /\ oldApp.Rev < MaxRev
                       /\ appsDB' = Put(appsDB, [merged EXCEPT !.UpdatedAt = now])
                       /\ call' = [op |-> "CreateOrUpdateApp",
                                   args |-> <<app, editor>>, res |-> <<TRUE>>]
                       /\ \E list \in {FindAppVersionsResult(cacheVersionsList,
                                           versDB, merged.Slug, Dev, now)} :
                             /\ versDB' = list.db
                             /\ cacheVersionsList' = list.cache
    /\ UNCHANGED <<lruVars, queries, now, written, pubs, cacheVersionsLatest, found>>

\* func FindLatestVersion(appSlug string, channel Channel) (*Version, error)
FindLatestVersion(appSlug, channel) ==
    /\ \E r \in {FindLatestVersionResult(cacheVersionsLatest, versDB, appSlug,
                                         channel, now)} :
          /\ cacheVersionsLatest' = r.cache
          /\ versDB' = r.db
          /\ found' = [op |-> "FindLatestVersion", slug |-> appSlug,
                       channel |-> channel, at |-> now, hit |-> r.hit,
                       err |-> r.err, ver |-> r.ver, versions |-> <<>>]
    /\ UNCHANGED <<lruVars, queries, call, now, appsDB, written, pubs, cacheVersionsList>>

\* func FindAppVersions(appSlug string, channel Channel) (*AppVersions, error)
FindAppVersions(appSlug, channel) ==
    /\ \E r \in {FindAppVersionsResult(cacheVersionsList, versDB, appSlug,
                                       channel, now)} :
          /\ cacheVersionsList' = r.cache
          /\ versDB' = r.db
          /\ found' = [op |-> "FindAppVersions", slug |-> appSlug,
                       channel |-> channel, at |-> now, hit |-> r.hit,
                       err |-> "", ver |-> <<>>, versions |-> <<r.versions>>]
    /\ UNCHANGED <<lruVars, queries, call, now, appsDB, written, pubs, cacheVersionsLatest>>

\* The registry before its first request.
RegInit ==
    /\ versDB = EmptyDB
    /\ appsDB = {}
    /\ written = <<>>
    /\ pubs = <<>>
    /\ cacheVersionsLatest = New(cacheSize, cacheTTL)
    /\ cacheVersionsList = New(cacheSize, cacheTTL)
    /\ found = NoFound
    /\ call = NoCall
    /\ queries = NoQueries

(***************************************************************************)
(* The requests, responses and archives the registry is run on.            *)
(***************************************************************************)

\* A JSON string field, and a field that is missing or is no string.
Field(s) == [ok |-> TRUE, s |-> s]
Absent == [ok |-> FALSE, s |-> <<>>]

\* The contents of a file: a JSON object with the fields the registry reads,
\* or bytes that are no JSON.
Object(editor, slug, version) ==
    [kind |-> "object", editor |-> editor, slug |-> slug, version |-> version]

NotJSON == [kind |-> "invalid", editor |-> Absent, slug |-> Absent,
            version |-> Absent]

Ver123 == <<"1", ".", "2", ".", "3">>
Ver124 == <<"1", ".", "2", ".", "4">>
Ver12 == <<"1", ".", "2">>
Dev123 == Ver123 \o devSuffix \o <<"a">>
Beta123 == Ver123 \o betaSuffix \o <<"1">>

SlugN == <<"n">>
SlugM == <<"m">>
Cozy == <<"Cozy">>

\* tar entries
File(name, size, content) ==
    [typeflag |-> "reg", name |-> name, size |-> size, content |-> content]

Dir(name) ==
    [typeflag |-> "dir", name |-> name, size |-> 0, content |-> NoContent]

Symlink(name) ==
    [typeflag |-> "symlink", name |-> name, size |-> 0, content |-> NoContent]

\* A manifest.webapp with contents m in directory top (top = <<>>: at the
\* top level).
ManifestFile(top, m) ==
    File(top \o <<"manifest.webapp">>,
         IF m.kind = "empty" THEN 0 ELSE ManifestBytes, m)

PackageFile(top, p) == File(top \o <<"package.json">>, ManifestBytes, p)

GoodManifest(slug, version) == Object(Field(Cozy), Field(slug), Field(version))

Body(id, gzip, entries, zeros, trailing) ==
    [id |-> id, gzip |-> gzip, entries |-> entries, zeros |-> zeros,
     trailing |-> trailing]

Response(fetch, status, ctype, body) ==
    [fetch |-> fetch, status |-> status, ctype |-> ctype, body |-> body]

Options(version, sha256) == [Version |-> version, URL |-> "u", Sha256 |-> sha256]

Input(opts, resp, fill) == [opts |-> opts, resp |-> resp, fill |-> fill]

\* The sha256 of a publisher that declares the digest of the bytes the
\* registry hashes.
Hashed(resp, fill) == HexEncode(Sum(resp.body, Consumed(resp, fill)))

\* A well-formed archive of app slug at version, served gzipped.
GoodInput(slug, version) ==
    LET resp == Response("ok", 200, "application/gzip",
                         Body(<<"good", slug, version>>, TRUE,
                              <<ManifestFile(<<"a", "/">>, GoodManifest(slug, version))>>,
                              2, 0))
    IN Input(Options(version, Hashed(resp, BufferSize)), resp, BufferSize)

\* Archives that differ by their manifest and package.json.
ManifestContents ==
    {NoContent, NotJSON}
    \cup {Object(e, s, v) : e \in {Field(Cozy), Field(<<>>), Absent},
                            s \in {Field(SlugN), Absent},
                            v \in {Field(Ver123), Field(Ver124), Field(Ver12),
                                   Absent}}

PackageContents ==
    {NotJSON}
    \cup {Object(Absent, Absent, v) :
              v \in {Absent, Field(Ver123), Field(Ver124), Field(Ver12)}}

ManifestInputs ==
    {LET resp == Response("ok", 200, "application/gzip",
                          Body(<<"manifest", m, pk>>, TRUE,
                               <<ManifestFile(<<"a", "/">>, m)>> \o pk, 2, 0))
     IN Input(Options(v, Hashed(resp, BufferSize)), resp, BufferSize) :
        m \in ManifestContents,
        pk \in {<<>>} \cup {<<PackageFile(<<"a", "/">>, p)>> : p \in PackageContents},
        v \in {Ver123, Dev123, Beta123}}

\* Archives that differ by the names, the number and the order of their
\* entries.
NamedEntries ==
    {ManifestFile(<<"a", "/">>, GoodManifest(SlugN, Ver123)),
     ManifestFile(<<>>, GoodManifest(SlugN, Ver123)),
     File(<<"a", "/", "x">>, SmallBytes, NoContent),
     File(<<"b", "/", "y">>, SmallBytes, NoContent),
     File(<<"f">>, SmallBytes, NoContent),
     Dir(<<"a", "/">>),
     Symlink(<<"c", "/", "l">>)}

NameInputs ==
    {LET resp == Response("ok", 200, "application/gzip",
                          Body(<<"names", es>>, TRUE, es, 2, 0))
     IN Input(Options(Ver123, Hashed(resp, BufferSize)), resp, BufferSize) :
        es \in UNION {[1..n -> NamedEntries] : n \in 1..MaxArchiveEntries}}

\* Archives that differ by their size against the cap, by what ends them
\* and by what follows their end, served in several ways to publishers that
\* declare several hashes.
SizedEntries ==
    LET m == ManifestFile(<<"a", "/">>, GoodManifest(SlugN, Ver123))
        x(size) == File(<<"a", "/", "x">>, size, NoContent)
        y == File(<<"a", "/", "y">>, SmallBytes, NoContent)
    IN {\* far below the cap
        <<m, x(SmallBytes)>>,
        \* the archive and its end marker take the cap exactly
        <<m, x(maxApplicationSize - EntryLen(m) - 3 * BlockSize)>>,
        \* an entry ends at the cap exactly and another follows
        <<m, x(maxApplicationSize - EntryLen(m) - BlockSize), y>>,
        \* the cap falls inside an entry
        <<m, x(maxApplicationSize)>>}

SizedBodies ==
    {Body(<<"sized", es, gz, end>>, gz, es, end[1], end[2]) :
        es \in SizedEntries, gz \in BOOLEAN,
        end \in {<<0, 0>>, <<1, 0>>, <<2, 0>>, <<2, 2 * BlockSize>>,
                 <<2, maxApplicationSize>>}}

Responses(body) ==
    {Response("ok", 200, ct, body) :
        ct \in {"application/gzip", OctetStream, "application/x-tar"}}
    \cup {Response("ok", 404, "application/gzip", body),
          Response("error", 0, "", body)}

\* What publishers declare: the digest of the whole body, the digest of
\* the bytes the registry reads, the digest of something else.
Declared(resp, fill) ==
    {HexEncode(Sum(resp.body, WireLen(resp.body))),
     Hashed(resp, fill),
     HexEncode(Sum(resp.body, 0))}

SizeInputs ==
    UNION {UNION {{Input(Options(Ver123, sha), resp, fill) :
                      sha \in Declared(resp, fill)} :
                  resp \in Responses(b), fill \in {BlockSize, BufferSize}} :
           b \in SizedBodies}

DownloadInputs == ManifestInputs \cup NameInputs \cup SizeInputs

\* The app the versions are published for, as CreateOrUpdateApp stores it.
RegisteredApp ==
    [NewApp([Slug |-> SlugN, Type |-> "webapp", Editor |-> Cozy,
             Category |-> "", UpdatedAt |-> ZeroTime], Cozy, 0)
     EXCEPT !.Rev = 1]

\* Only Get returns values; ret[g] holds the (value, ok) of g's last Get
\* until g's next call.
NoRet == [op |-> "none", value |-> NoValue, ok |-> FALSE]

NoArg == [key |-> "none", value |-> NoValue]

\* A goroutine enters one of the four exported methods; its first statement
\* is c.mu.Lock(), on which it waits until the step below.
CallAdd(g, k, v) ==
    /\ pc[g] = "idle"
    /\ pc' = [pc EXCEPT ![g] = "Add"]
    /\ arg' = [arg EXCEPT ![g] = [key |-> k, value |-> v]]
    /\ ret' = [ret EXCEPT ![g] = NoRet]
    /\ UNCHANGED <<c, mu, now>>
    /\ UNCHANGED regVars

CallGet(g, k) ==
    /\ pc[g] = "idle"
    /\ pc' = [pc EXCEPT ![g] = "Get"]
    /\ arg' = [arg EXCEPT ![g] = [key |-> k, value |-> NoValue]]
    /\ ret' = [ret EXCEPT ![g] = NoRet]
    /\ UNCHANGED <<c, mu, now>>
    /\ UNCHANGED regVars

CallRemove(g, k) ==
    /\ pc[g] = "idle"
    /\ pc' = [pc EXCEPT ![g] = "Remove"]
    /\ arg' = [arg EXCEPT ![g] = [key |-> k, value |-> NoValue]]
    /\ ret' = [ret EXCEPT ![g] = NoRet]
    /\ UNCHANGED <<c, mu, now>>
    /\ UNCHANGED regVars

CallRemoveOldest(g) ==
    /\ pc[g] = "idle"
    /\ pc' = [pc EXCEPT ![g] = "RemoveOldest"]
    /\ arg' = [arg EXCEPT ![g] = NoArg]
    /\ ret' = [ret EXCEPT ![g] = NoRet]
    /\ UNCHANGED <<c, mu, now>>
    /\ UNCHANGED regVars

\* Add: c.mu.Lock(), the body, and the deferred c.mu.Unlock().  On the
\* overflow branch the body calls c.RemoveOldest() with c.mu still held:
\* the goroutine then waits at RemoveOldest's own c.mu.Lock().
Add(g) ==
    /\ pc[g] = "Add"
    /\ mu = NoOwner
    /\ c' = AddInsert(c, arg[g].key, arg[g].value, now)
    /\ IF AddOverflows(c, arg[g].key)
       THEN /\ mu' = g
            /\ pc' = [pc EXCEPT ![g] = "Add.RemoveOldest"]
            /\ UNCHANGED arg
       ELSE /\ mu' = NoOwner
            /\ pc' = [pc EXCEPT ![g] = "idle"]
            /\ arg' = [arg EXCEPT ![g] = NoArg]
    /\ UNCHANGED <<ret, now>>
    /\ UNCHANGED regVars

Get(g) ==
    /\ pc[g] = "Get"
    /\ mu = NoOwner
    /\ c' = GetCache(c, arg[g].key, now)
    /\ ret' = [ret EXCEPT ![g] =
                 [op |-> "Get",
                  value |-> GetResult(c, arg[g].key, now).value,
                  ok |-> GetResult(c, arg[g].key, now).ok]]
    /\ pc' = [pc EXCEPT ![g] = "idle"]
    /\ arg' = [arg EXCEPT ![g] = NoArg]
    /\ UNCHANGED <<mu, now>>
    /\ UNCHANGED regVars

Remove(g) ==
    /\ pc[g] = "Remove"
    /\ mu = NoOwner
    /\ c' = RemoveCache(c, arg[g].key)
    /\ pc' = [pc EXCEPT ![g] = "idle"]
    /\ arg' = [arg EXCEPT ![g] = NoArg]
    /\ UNCHANGED <<mu, ret, now>>
    /\ UNCHANGED regVars

\* RemoveOldest, called by a client or from Add: c.mu.Lock(), the body and
\* the deferred unlock; when it was called from Add, Add then returns and
\* its own deferred unlock runs.
RemoveOldest(g) ==
    /\ pc[g] \in {"RemoveOldest", "Add.RemoveOldest"}
    /\ mu = NoOwner
    /\ c' = RemoveOldestCache(c)
    /\ pc' = [pc EXCEPT ![g] = "idle"]
    /\ arg' = [arg EXCEPT ![g] = NoArg]
    /\ UNCHANGED <<mu, ret, now>>
    /\ UNCHANGED regVars

\* time passes
Tick ==
    /\ now < MaxTime
    /\ now' = now + 1
    /\ UNCHANGED <<lruVars, regVars>>

\* The next statement of goroutine g inside a cache call.
Step(g) == Add(g) \/ Get(g) \/ Remove(g) \/ RemoveOldest(g)

\* The caches under test: capacity 2, without and with a TTL.
LruConfigs == {New(2, 0), New(2, 1)}

LruInit ==
    /\ c \in LruConfigs
    /\ mu = NoOwner
    /\ pc = [g \in Threads |-> "idle"]
    /\ arg = [g \in Threads |-> NoArg]
    /\ ret = [g \in Threads |-> NoRet]
    /\ now = 0
    /\ RegInit

LruNext ==
    \/ \E g \in Threads, k \in Keys, v \in Values : CallAdd(g, k, v)
    \/ \E g \in Threads, k \in Keys : CallGet(g, k)
    \/ \E g \in Threads, k \in Keys : CallRemove(g, k)
    \/ \E g \in Threads : CallRemoveOldest(g)
    \/ \E g \in Threads : Add(g)
    \/ \E g \in Threads : Get(g)
    \/ \E g \in Threads : Remove(g)
    \/ \E g \in Threads : RemoveOldest(g)
    \/ Tick

SpecLru == LruInit /\ [][LruNext]_vars

\* The Go scheduler runs every runnable goroutine: a goroutine whose next
\* statement can execute eventually executes it.
SpecLruFair == SpecLru /\ \A g \in Threads : WF_vars(Step(g))

(***************************************************************************)
(* One publication: a publisher sends one request for the registered app.  *)
(***************************************************************************)

\* The cache under test of SpecLru is not part of the registry.
LruIdle ==
    /\ c = New(0, 0)
    /\ mu = NoOwner
    /\ pc = <<>>
    /\ arg = <<>>
    /\ ret = <<>>

PubInit ==
    /\ LruIdle
    /\ now = 0
    /\ versDB = EmptyDB
    /\ appsDB = {RegisteredApp}
    /\ written = <<>>
    /\ pubs = [p \in {"p1"} |-> Idle]
    /\ cacheVersionsLatest = New(cacheSize, cacheTTL)
    /\ cacheVersionsList = New(cacheSize, cacheTTL)
    /\ found = NoFound
    /\ call = NoCall
    /\ queries = NoQueries

PubNext ==
    \/ \E p \in DOMAIN pubs, in \in DownloadInputs : Download(p, in)
    \/ \E p \in DOMAIN pubs, app \in appsDB : CreateVersionFind(p, app)
    \/ \E p \in DOMAIN pubs : CreateVersionCreateDoc(p)

SpecPub == PubInit /\ [][PubNext]_vars

(***************************************************************************)
(* The store: two publishers, the editors of the app and the clients of    *)
(* the discovery layer work on the registry at the same time.              *)
(***************************************************************************)

Publishers == {"p1", "p2"}

\* A request the registry refuses: the URL answers 404.
NotFoundInput ==
    LET good == GoodInput(SlugN, Ver123)
    IN Input(good.opts, [good.resp EXCEPT !.status = 404], good.fill)

\* Archives of version 1.2.3 whose manifests name the app n and another
\* app, m.
StoreInputs == {GoodInput(SlugN, Ver123), GoodInput(SlugM, Ver123), NotFoundInput}

\* What editors send for the app n.
AppInputs ==
    {[Slug |-> slug, Type |-> "webapp", Editor |-> Cozy, Category |-> cat,
      UpdatedAt |-> ZeroTime] : slug \in {SlugN}, cat \in {"", "c"}}

StoreInit ==
    /\ LruIdle
    /\ now = 0
    /\ versDB = EmptyDB
    /\ appsDB = {}
    /\ written = <<>>
    /\ pubs = [p \in Publishers |-> Idle]
    /\ cacheVersionsLatest = New(cacheSize, cacheTTL)
    /\ cacheVersionsList = New(cacheSize, cacheTTL)
    /\ found = NoFound
    /\ call = NoCall
    /\ queries = NoQueries

StoreNext ==
    \/ \E app \in AppInputs : CreateOrUpdateApp(app, Cozy)
    \/ \E p \in DOMAIN pubs, in \in StoreInputs : Download(p, in)
    \/ \E p \in DOMAIN pubs, app \in appsDB : CreateVersionFind(p, app)
    \/ \E p \in DOMAIN pubs : CreateVersionCreateDoc(p)
    \/ \E p \in DOMAIN pubs : Return(p)
    \/ FindLatestVersion(SlugN, Stable)
    \/ FindAppVersions(SlugN, Stable)

SpecStore == StoreInit /\ [][StoreNext]_vars

(***************************************************************************)
(* Discovery over time: versions of the registered app are published while *)
(* clients ask for its latest version and for the list of its versions.    *)
(***************************************************************************)

DiscoveryInputs == {GoodInput(SlugN, Ver123), GoodInput(SlugN, Ver124)}

DiscoveryInit ==
    /\ LruIdle
    /\ now = 0
    /\ versDB = EmptyDB
    /\ appsDB = {RegisteredApp}
    /\ written = <<>>
    /\ pubs = [p \in {"p1"} |-> Idle]
    /\ cacheVersionsLatest = New(cacheSize, cacheTTL)
    /\ cacheVersionsList = New(cacheSize, cacheTTL)
    /\ found = NoFound
    /\ call = NoCall
    /\ queries = NoQueries

DiscoveryNext ==
    \/ \E p \in DOMAIN pubs, in \in DiscoveryInputs : Download(p, in)
    \/ \E p \in DOMAIN pubs, app \in appsDB : CreateVersionFind(p, app)
    \/ \E p \in DOMAIN pubs : CreateVersionCreateDoc(p)
    \/ \E p \in DOMAIN pubs : Return(p)
    \/ FindLatestVersion(SlugN, Stable)
    \/ FindAppVersions(SlugN, Stable)
    \/ Tick

SpecDiscovery == DiscoveryInit /\ [][DiscoveryNext]_vars

(***************************************************************************)
(* The latest version: versions of the apps n and m are published in the   *)
(* same versions database while clients ask for the latest stable version  *)
(* of n.                                                                   *)
(***************************************************************************)

Ver129 == <<"1", ".", "2", ".", "9">>
Ver1210 == <<"1", ".", "2", ".", "1", "0">>
Ver200 == <<"2", ".", "0", ".", "0">>

LatestInputs ==
    {GoodInput(SlugN, Ver129), GoodInput(SlugN, Ver1210),
     GoodInput(SlugM, Ver200)}

LatestInit ==
    /\ LruIdle
    /\ now = 0
    /\ versDB = EmptyDB
    /\ appsDB = {RegisteredApp,
                 [RegisteredApp EXCEPT !.ID = SlugM, !.Slug = SlugM]}
    /\ written = <<>>
    /\ pubs = [p \in {"p1"} |-> Idle]
    /\ cacheVersionsLatest = New(cacheSize, cacheTTL)
    /\ cacheVersionsList = New(cacheSize, cacheTTL)
    /\ found = NoFound
    /\ call = NoCall
    /\ queries = NoQueries

\* The handler publishes a version for the app its manifest names.
LatestNext ==
    \/ \E p \in DOMAIN pubs, in \in LatestInputs : Download(p, in)
    \/ \E p \in DOMAIN pubs, app \in appsDB :
          /\ pubs[p].pc = "downloaded"
          /\ app.Slug = pubs[p].ver[1].Slug
          /\ CreateVersionFind(p, app)
    \/ \E p \in DOMAIN pubs : CreateVersionCreateDoc(p)
    \/ \E p \in DOMAIN pubs : Return(p)
    \/ FindLatestVersion(SlugN, Stable)
    \/ Tick

SpecLatest == LatestInit /\ [][LatestNext]_vars

(***************************************************************************)
(* The channels: a stable, a beta and a dev version of the app n are       *)
(* published while clients list its versions on each channel.              *)
(***************************************************************************)

ChannelInputs ==
    {GoodInput(SlugN, Ver123), GoodInput(SlugN, Beta123),
     GoodInput(SlugN, Dev123)}

ChannelsNext ==
    \/ \E p \in DOMAIN pubs, in \in ChannelInputs : Download(p, in)
    \/ \E p \in DOMAIN pubs, app \in appsDB : CreateVersionFind(p, app)
    \/ \E p \in DOMAIN pubs : CreateVersionCreateDoc(p)
    \/ \E p \in DOMAIN pubs : Return(p)
    \/ \E channel \in {Stable, Beta, Dev} : FindAppVersions(SlugN, channel)

SpecChannels == DiscoveryInit /\ [][ChannelsNext]_vars

(***************************************************************************)
(* The apps: editors create and update the app n, under both casings of    *)
(* its slug, with both types, with and without a category and an           *)
(* updated_at of their own.                                                *)
(***************************************************************************)

Other == <<"Other">>

UpsertInputs ==
    {[Slug |-> slug, Type |-> type, Editor |-> Cozy, Category |-> cat,
      UpdatedAt |-> at] :
        slug \in {SlugN, <<"N">>}, type \in {"webapp", "konnector"},
        cat \in {"", "c"}, at \in {ZeroTime, 0}}

AppsInit ==
    /\ LruIdle
    /\ now = 0
    /\ RegInit

AppsNext ==
    \/ \E app \in UpsertInputs, editor \in {Cozy, Other} :
          CreateOrUpdateApp(app, editor)
    \/ Tick

SpecApps == AppsInit /\ [][AppsNext]_vars

(***************************************************************************)
(* Version strings: the validator, the channel, the triple and the order   *)
(* of registry.go, called on version strings of every shape.               *)
(***************************************************************************)

\* The string comparison of Go is byte-wise; on the characters of version
\* strings ('-' < '.' < digits < lower-case letters) the byte order is the
\* order of StringLess.
\* func VersionLess(ver1, ver2 string) bool
VersionLess(ver1, ver2) ==
    LET Less(v1, v2) ==
            \/ StringLess(v1[1], v2[1])
            \/ v1[1] = v2[1] /\ StringLess(v1[2], v2[2])
            \/ v1[1] = v2[1] /\ v1[2] = v2[2] /\ StringLess(v1[3], v2[3])
    IN Less(SplitVersion(ver1), SplitVersion(ver2))

\* The numbers and the suffixes the version strings are made of.
NumberStrings ==
    {<<"0">>, <<"2">>, <<"9">>, <<"1", "0">>, <<"0", "1">>, <<>>,
     <<"9", "9", "9", "9", "9">>, <<"1", "0", "0", "0", "0", "0">>}

SuffixStrings ==
    {<<>>,
     devSuffix \o <<"a", "9">>, devSuffix \o <<"g">>, devSuffix,
     betaSuffix \o <<"1">>, betaSuffix \o <<"0", "1">>, betaSuffix,
     <<"-", "b", "e", "t", "a", "x", "1">>,
     <<"-", "b", "e", "t", "a", "-", "d", "e", "v", ".", "7">>,
     <<"-", "r", "c", ".", "1">>,
     <<".", "4">>}

VersionStrings ==
    {a \o <<".">> \o b \o <<".">> \o d \o suffix :
        a \in {<<"1">>, <<"0", "1">>}, b \in {<<"2">>, <<>>},
        d \in NumberStrings, suffix \in SuffixStrings}
    \cup {<<"1", ".", "2">>, <<"1">>, <<>>}

\* Versions the validator accepts, with small and large numbers.
ValidVersions ==
    {v \in {a \o <<".">> \o b \o <<".">> \o d \o suffix :
                a \in {<<"2">>, <<"9">>, <<"1", "0">>},
                b \in {<<"0">>, <<"1", "0">>},
                d \in {<<"9">>, <<"1", "0">>},
                suffix \in {<<>>, devSuffix \o <<"a">>}} :
        validVersionReg(v)}

\* validVersionReg.MatchString(version) and, as SplitVersion panics on some
\* strings, GetVersionChannel and SplitVersion of the accepted ones.  A
\* behaviour makes one call.
Validate(version) ==
    /\ call.op = "none"
    /\ call' = [op |-> "Validate", args |-> <<version>>,
                res |-> IF validVersionReg(version)
                        THEN <<GetVersionChannel(version),
                               IF SplitVersionPanics(version) THEN <<>>
                               ELSE SplitVersion(version)>>
                        ELSE <<>>]
    /\ UNCHANGED <<lruVars, queries, now, versDB, appsDB, written, pubs,
                   cacheVersionsLatest, cacheVersionsList, found>>

\* VersionLess on the pairs of three valid versions.
Compare(v1, v2, v3) ==
    /\ call.op = "none"
    /\ call' = [op |-> "VersionLess", args |-> <<v1, v2, v3>>,
                res |-> <<VersionLess(v1, v1), VersionLess(v1, v2),
                          VersionLess(v2, v3), VersionLess(v1, v3)>>]
    /\ UNCHANGED <<lruVars, queries, now, versDB, appsDB, written, pubs,
                   cacheVersionsLatest, cacheVersionsList, found>>

VersionsInit ==
    /\ LruIdle
    /\ now = 0
    /\ RegInit

VersionsNext ==
    \/ \E version \in VersionStrings : Validate(version)
    \/ \E v1 \in ValidVersions, v2 \in ValidVersions, v3 \in ValidVersions :
          Compare(v1, v2, v3)

SpecVersions == VersionsInit /\ [][VersionsNext]_vars

(***************************************************************************)
(* registry/finders.go: GetAppsList.  The apps database answers a Find     *)
(* request with the rows of the index that match the selector, in the sort *)
(* order of the request; rows holds the ids of these rows.  The model      *)
(* covers the choice of the page and of the cursor; the versions that the  *)
(* call then attaches to each app of the page do not change either.        *)
(***************************************************************************)

\* const maxLimit = 200
maxLimit == 200

\* len(appsIndexes)
designsCount == 6

\* strings.HasPrefix(rows.ID(), "_design")
IsDesignID(id) == id # <<>> /\ id[1] = "_design/"

\* opts.Limit after: if opts.Limit == 0 {50} else if opts.Limit > maxLimit
\* {maxLimit}
PageLimit(limit) ==
    IF limit = 0 THEN 50 ELSE IF limit > maxLimit THEN maxLimit ELSE limit

\* db.Find(ctx, req) with "skip" and "limit"
Find(rows, skip, limit) == SubSeq(rows, skip + 1, Min(Len(rows), skip + limit))

\* GetAppsList(opts) on the index rows: (cursor, res), or the panic of
\* res[:opts.Limit] with a negative limit.
GetAppsListResult(rows, opts) ==
    LET IsApp(id) == ~IsDesignID(id)
        Page(limit, res) ==
            IF Len(res) = 0
            THEN [cursor |-> 0 - 1, res |-> <<>>, err |-> ""]
            ELSE IF Len(res) > limit
            THEN IF limit < 0
                 THEN [cursor |-> 0, res |-> <<>>, err |-> "panic"]
                 ELSE [cursor |-> opts.Cursor + limit,
                       res |-> SubSeq(res, 1, limit), err |-> ""]
            ELSE [cursor |-> 0 - 1, res |-> res, err |-> ""]
        Query(limit) ==
            Page(limit, SelectSeq(Find(rows, opts.Cursor,
                                       limit + designsCount + 1), IsApp))
    IN Query(PageLimit(opts.Limit))

\* func GetAppsList(opts *AppsListOptions) (int, []*App, error).  The call
\* record keeps the rows of the index, the options, what the call returned
\* and the apps returned since the call with cursor 0.
GetAppsList(rows, opts) ==
    /\ \E r \in {GetAppsListResult(rows, opts)} :
          call' = [op |-> "GetAppsList", args |-> <<rows, opts>>,
                   res |-> <<r.cursor, r.res, r.err,
                             IF opts.Cursor = 0 THEN r.res
                             ELSE call.res[4] \o r.res>>]
    /\ UNCHANGED <<lruVars, queries, now, versDB, appsDB, written, pubs,
                   cacheVersionsLatest, cacheVersionsList, found>>

(***************************************************************************)
(* The list of apps: a client pages through the apps of an unchanged       *)
(* database, from cursor 0 and with each returned cursor, for short and    *)
(* long indexes, with and without design documents among the rows.         *)
(***************************************************************************)

AppRows(n) == [i \in 1..n |-> <<"a", ToString(i)>>]

DesignRow(i) == <<"_design/", ToString(i)>>

\* The rows of n apps with design documents before the apps at the
\* positions of at.
RECURSIVE RowsWith(_, _, _)
RowsWith(n, at, i) ==
    IF i > n THEN <<>>
    ELSE (IF i \in at THEN <<DesignRow(i)>> ELSE <<>>)
         \o <<<<"a", ToString(i)>>>> \o RowsWith(n, at, i + 1)

MaxApps == 4

ListRows ==
    {RowsWith(n, at, 1) : n \in 0..MaxApps, at \in SUBSET {1, 3}}
    \cup {AppRows(50), AppRows(51), AppRows(200), AppRows(201)}
    \cup {RowsWith(0, {}, 1) \o <<DesignRow(0)>>,
          AppRows(2) \o <<DesignRow(0)>>}

ListLimits == {0 - 1, 0, 1, 2, 3, 200, 250}

ListInit ==
    /\ LruIdle
    /\ now = 0
    /\ RegInit

ListNext ==
    \/ \E rows \in ListRows, limit \in ListLimits :
          /\ call.op = "none"
          /\ GetAppsList(rows, [Limit |-> limit, Cursor |-> 0])
    \/ /\ call.op = "GetAppsList"
       /\ call.res[3] = ""
       /\ call.res[1] >= 0
       /\ GetAppsList(call.args[1],
                      [Limit |-> call.args[2].Limit, Cursor |-> call.res[1]])

SpecList == ListInit /\ [][ListNext]_vars

(***************************************************************************)
(* registry/finders.go: versionViewQuery, statement by statement, for      *)
(* goroutines that run it at the same time.  A query of a design document  *)
(* that is not installed answers 404; a query of an installed one answers  *)
(* 200 or fails in the store, with the status 404 or 500.  createViews     *)
(* sends its PUT without a revision (object.Rev is never read from the     *)
(* store): the store creates the design document, or answers 409 when it   *)
(* exists.                                                                 *)
(***************************************************************************)

\* the view queries of one versionViewQuery call that the model follows
MaxQueries == 3

\* The statuses with which db.Query(ctx, versViewDocName(appSlug), ...) can
\* answer.
QueryStatuses(db, appSlug) ==
    IF versViewDocName(appSlug) \in db.design
    THEN {"200", "404", "500"}
    ELSE {"404"}

\* A goroutine calls versionViewQuery(db, appSlug, channel, opts).
versionViewQueryCall(g, appSlug, channel) ==
    /\ queries[g].pc = "idle"
    /\ queries' = [queries EXCEPT ![g] =
                      [NoQueries[g] EXCEPT !.pc = "query",
                                           !.appSlug = appSlug,
                                           !.channel = channel]]
    /\ UNCHANGED <<lruVars, now, versDB, appsDB, written, pubs,
                   cacheVersionsLatest, cacheVersionsList, found, call>>

\* rows, err := db.Query(...): the rows are returned, a 404 leads to
\* createVersionsViews, another error is returned.
versionViewQueryQuery(g, status) ==
    /\ queries[g].pc = "query"
    /\ queries[g].asked < MaxQueries
    /\ status \in QueryStatuses(versDB, queries[g].appSlug)
    /\ queries' = [queries EXCEPT ![g] =
                      [@ EXCEPT !.asked = @ + 1,
                                !.last = status,
                                !.fault = queries[g].fault
                                    \/ (status # "200"
                                        /\ versViewDocName(queries[g].appSlug)
                                              \in versDB.design),
                                !.pc = IF status = "404" THEN "create"
                                       ELSE "done",
                                !.err = IF status \in {"200", "404"} THEN ""
                                        ELSE status]]
    /\ UNCHANGED <<lruVars, now, versDB, appsDB, written, pubs,
                   cacheVersionsLatest, cacheVersionsList, found, call>>

\* if err = createVersionsViews(appSlug); err != nil { return nil, err };
\* return versionViewQuery(db, appSlug, channel, opts)
versionViewQueryCreate(g) ==
    /\ queries[g].pc = "create"
    /\ IF versViewDocName(queries[g].appSlug) \in versDB.design
       THEN /\ queries' = [queries EXCEPT ![g] =
                              [@ EXCEPT !.created = @ + 1, !.pc = "done",
                                        !.err = "409"]]
            /\ UNCHANGED versDB
       ELSE /\ queries' = [queries EXCEPT ![g] =
                              [@ EXCEPT !.created = @ + 1, !.pc = "query"]]
            /\ versDB' = [versDB EXCEPT !.design =
                             @ \cup {versViewDocName(queries[g].appSlug)}]
    /\ UNCHANGED <<lruVars, now, appsDB, written, pubs,
                   cacheVersionsLatest, cacheVersionsList, found, call>>

(***************************************************************************)
(* The views: two goroutines query the views of the apps n and m, which    *)
(* are not installed at first.                                             *)
(***************************************************************************)

ViewsInit ==
    /\ LruIdle
    /\ now = 0
    /\ RegInit

ViewsNext ==
    \E g \in Threads :
        \/ \E appSlug \in {SlugN, SlugM}, channel \in {Stable, Dev} :
              versionViewQueryCall(g, appSlug, channel)
        \/ \E status \in {"200", "404", "500"} : versionViewQueryQuery(g, status)
        \/ versionViewQueryCreate(g)

SpecViews == ViewsInit /\ [][ViewsNext]_vars

(***************************************************************************)
(* The beta channel: a stable release and two betas of the app n, with the *)
(* counters 9 and 10, are published while clients ask for its latest       *)
(* version on the beta channel.                                            *)
(***************************************************************************)

Ver100 == <<"1", ".", "0", ".", "0">>
Ver101 == <<"1", ".", "0", ".", "1">>

BetaInputs ==
    {GoodInput(SlugN, Ver100),
     GoodInput(SlugN, Ver101 \o betaSuffix \o <<"9">>),
     GoodInput(SlugN, Ver101 \o betaSuffix \o <<"1", "0">>)}

BetaNext ==
    \/ \E p \in DOMAIN pubs, in \in BetaInputs : Download(p, in)
    \/ \E p \in DOMAIN pubs, app \in appsDB : CreateVersionFind(p, app)
    \/ \E p \in DOMAIN pubs : CreateVersionCreateDoc(p)
    \/ \E p \in DOMAIN pubs : Return(p)
    \/ FindLatestVersion(SlugN, Beta)

SpecBeta == DiscoveryInit /\ [][BetaNext]_vars

(***************************************************************************)
(* registry/finders.go: the discovery calls of a Space.  Each Space has    *)
(* its own versions database, c.VersDB(); the two caches are variables of  *)
(* the package and their keys are made of the slug and the channel.        *)
(* versDB is the versions database of the space "main"; the space "other"  *)
(* holds the version 2.0.0 of an app n of its own, with its views          *)
(* installed, and is not published to.                                     *)
(***************************************************************************)

Spaces == {"main", "other"}

OtherVersDB ==
    LET Stored(in) == [downloadVersion(in.opts, in.resp, in.fill, 0).ver[1]
                          EXCEPT !.Rev = 1]
    IN [docs |-> {Stored(GoodInput(SlugN, Ver200))},
        design |-> {versViewDocName(SlugN)}]

\* c.VersDB()
VersDBOf(space) == IF space = "main" THEN versDB ELSE OtherVersDB

\* func FindLatestVersion(c *Space, appSlug string, channel Channel)
FindLatestVersionIn(space, appSlug, channel) ==
    /\ \E r \in {FindLatestVersionResult(cacheVersionsLatest, VersDBOf(space),
                                         appSlug, channel, now)} :
          /\ cacheVersionsLatest' = r.cache
          /\ versDB' = IF space = "main" THEN r.db ELSE versDB
          /\ found' = [op |-> "FindLatestVersion", slug |-> appSlug,
                       channel |-> channel, at |-> now, hit |-> r.hit,
                       err |-> r.err, ver |-> r.ver, versions |-> <<>>,
                       space |-> space]
    /\ UNCHANGED <<lruVars, queries, call, now, appsDB, written, pubs,
                   cacheVersionsList>>

\* func FindAppVersions(c *Space, appSlug string, channel Channel)
FindAppVersionsIn(space, appSlug, channel) ==
    /\ \E r \in {FindAppVersionsResult(cacheVersionsList, VersDBOf(space),
                                       appSlug, channel, now)} :
          /\ cacheVersionsList' = r.cache
          /\ versDB' = IF space = "main" THEN r.db ELSE versDB
          /\ found' = [op |-> "FindAppVersions", slug |-> appSlug,
                       channel |-> channel, at |-> now, hit |-> r.hit,
                       err |-> "", ver |-> <<>>, versions |-> <<r.versions>>,
                       space |-> space]
    /\ UNCHANGED <<lruVars, queries, call, now, appsDB, written, pubs,
                   cacheVersionsLatest>>

(***************************************************************************)
(* Two spaces: versions of the app n of the space "main" are published     *)
(* while clients of both spaces ask for the latest version and for the     *)
(* versions of their app n.                                                *)
(***************************************************************************)

SpacesInit ==
    /\ LruIdle
    /\ now = 0
    /\ versDB = EmptyDB
    /\ appsDB = {RegisteredApp}
    /\ written = <<>>
    /\ pubs = [p \in {"p1"} |-> Idle]
    /\ cacheVersionsLatest = New(cacheSize, cacheTTL)
    /\ cacheVersionsList = New(cacheSize, cacheTTL)
    /\ found = [op |-> "none", slug |-> <<>>, channel |-> "", at |-> 0,
                hit |-> FALSE, err |-> "", ver |-> <<>>, versions |-> <<>>,
                space |-> "main"]
    /\ call = NoCall
    /\ queries = NoQueries

SpacesNext ==
    \/ \E p \in DOMAIN pubs, in \in DiscoveryInputs : Download(p, in)
    \/ \E p \in DOMAIN pubs, app \in appsDB : CreateVersionFind(p, app)
    \/ \E p \in DOMAIN pubs : CreateVersionCreateDoc(p)
    \/ \E p \in DOMAIN pubs : Return(p)
    \/ \E space \in Spaces : FindLatestVersionIn(space, SlugN, Stable)
    \/ \E space \in Spaces : FindAppVersionsIn(space, SlugN, Stable)

SpecSpaces == SpacesInit /\ [][SpacesNext]_vars

(***************************************************************************)
(* Claims about the cache.                                                 *)
(***************************************************************************)

\* C1: an Add(k, v) of a key that is not in a cache holding N = MaxEntries
\* > 0 entries completes, with k the most recently used entry, N entries in
\* the cache and the least recently used entry gone.  Stated on the state
\* in which Add has pushed k and is about to evict: the goroutine can take
\* the eviction step, and that step leaves the cache as claimed.
C1_AddOnFullCacheCompletes ==
    \A g \in Threads :
        pc[g] = "Add.RemoveOldest" =>
            /\ ENABLED RemoveOldest(g)
            /\ LET after == RemoveOldestCache(c)
               IN /\ after.ll[1].key = arg[g].key
                  /\ Len(after.ll) = c.MaxEntries
                  /\ c.ll[Len(c.ll)].key \notin after.cache

\* C2: every call of Add, Get, Remove and RemoveOldest eventually returns,
\* whatever the interleaving of the callers and the contents of the cache.
C2_EveryCallReturns ==
    \A g \in Threads : (pc[g] # "idle") ~> (pc[g] = "idle")

\* C3: Add(k, v) stores (k, v) with the current time at the front.  A Get(k)
\* of a present entry whose age is at most TTL (or with TTL = 0) returns
\* (v, true), moves the entry to the front and sets its date to the current
\* time; a Get(k) of an entry older than TTL > 0 returns a miss and leaves
\* k absent from the map and the list.
C3_GetHonoursTTL ==
    [][\A g \in Threads :
        /\ (pc[g] = "Add" /\ pc'[g] # "Add") =>
              c'.ll[1] = [key |-> arg[g].key, value |-> arg[g].value,
                          date |-> now]
        /\ (pc[g] = "Get" /\ pc'[g] = "idle" /\ arg[g].key \in c.cache) =>
              LET k == arg[g].key
                  e == c.ll[CHOOSE i \in 1..Len(c.ll) : c.ll[i].key = k]
              IN IF c.TTL = 0 \/ now - e.date <= c.TTL
                 THEN /\ ret'[g] = [op |-> "Get", value |-> e.value,
                                    ok |-> TRUE]
                      /\ c'.ll[1] = [key |-> k, value |-> e.value,
                                     date |-> now]
                      /\ c'.cache = c.cache
                 ELSE /\ ret'[g] = [op |-> "Get", value |-> NoValue,
                                    ok |-> FALSE]
                      /\ k \notin c'.cache
                      /\ \A i \in 1..Len(c'.ll) : c'.ll[i].key # k
    ]_vars

\* C3 witness: with a TTL set, a Get made after time has passed was a hit
\* that put its entry, re-dated, at the front.
C3_Witness ==
    \E g \in Threads :
        /\ c.TTL > 0 /\ now = MaxTime
        /\ pc[g] = "idle" /\ ret[g].ok
        /\ Len(c.ll) > 0 /\ c.ll[1].date = now
        /\ c.ll[1].value = ret[g].value

(***************************************************************************)
(* Claims about the publication of a version.                              *)
(***************************************************************************)

\* C4: once a Version of an app has been written to the store, every
\* FindLatestVersion and FindAppVersions call for that app and a channel the
\* Version belongs to, made more than cacheTTL (5 minutes) after the write,
\* reflects it: the latest version returned is not below it in the order of
\* the channel, and the list returned holds it, whatever discovery calls
\* were made in between.
C4_StalenessBoundedByTTL ==
    \A d \in versDB.docs :
        (/\ found.op # "none"
         /\ found.slug = d.Slug
         /\ ViewEmits(d, found.channel)
         /\ written[d.ID] + cacheTTL < found.at)
        => /\ found.op = "FindLatestVersion" =>
                /\ found.err = ""
                /\ found.ver # <<>>
                /\ \E latest \in {found.ver[1]} :
                      ~KeyLess(ViewKey(latest, found.channel),
                               ViewKey(d, found.channel))
           /\ found.op = "FindAppVersions" =>
                \E list \in {CASE found.channel = Stable -> found.versions[1].Stable
                               [] found.channel = Beta -> found.versions[1].Beta
                               [] OTHER -> found.versions[1].Dev} :
                   \E i \in 1..Len(list) : list[i] = d.Version

\* C5: of two CreateVersion calls for the same (slug, version) that have
\* both returned, whatever the interleaving of their existence checks and
\* their writes, the one that did not succeed returned
\* ErrVersionAlreadyExists, and exactly one Version document of that
\* (slug, version) is stored.
C5_OneCreatedOtherAlreadyExists ==
    \A p \in DOMAIN pubs : \A q \in DOMAIN pubs \ {p} :
        (/\ pubs[p].pc = "done"
         /\ pubs[q].pc = "done"
         /\ pubs[p].in = pubs[q].in
         /\ pubs[p].app = pubs[q].app
         /\ pubs[p].err = "")
        => /\ pubs[q].err = "ErrVersionAlreadyExists"
           /\ Cardinality({d \in versDB.docs :
                              /\ d.Slug = pubs[p].ver[1].Slug
                              /\ d.Version = pubs[p].ver[1].Version}) = 1

\* C6: no step removes or changes a stored Version document, and a
\* CreateVersion(ver, app) called while a Version of app.Slug and
\* ver.Version is stored returns ErrVersionAlreadyExists and leaves the
\* versions database as it is.
C6_VersionsAreAppendOnly ==
    [][/\ \A d \in versDB.docs : d \in versDB'.docs
       /\ \A p \in DOMAIN pubs :
             (/\ pubs[p].pc = "downloaded"
              /\ pubs'[p].pc # "downloaded"
              /\ \E d \in versDB.docs :
                    /\ d.Slug = pubs'[p].app[1].Slug
                    /\ d.Version = pubs[p].ver[1].Version)
             => /\ pubs'[p].pc = "done"
                /\ pubs'[p].err = "ErrVersionAlreadyExists"
                /\ versDB' = versDB]_vars

\* C7: a publication attempt that fails at any stage ends with a 422
\* Unprocessable error, returns no Version and has written nothing to the
\* store; a Version is produced only after the fetch, the hash check, the
\* parse of the manifest and the reconciliation have succeeded.
C7_FailedAttemptIsUnprocessable ==
    \A p \in DOMAIN pubs :
        /\ pubs[p].pc = "failed" =>
              /\ pubs[p].res[1].outcome = "error"
              /\ pubs[p].res[1].code = 422
              /\ pubs[p].res[1].ver = <<>>
              /\ versDB.docs = {}
        /\ pubs[p].pc = "downloaded" =>
              /\ pubs[p].in[1].resp.fetch = "ok"
              /\ pubs[p].in[1].resp.status = 200
              /\ pubs[p].in[1].opts.Sha256.hex =
                     Sum(pubs[p].in[1].resp.body, pubs[p].ver[1].Size)
              /\ pubs[p].ver[1].Manifest.kind = "object"
              /\ pubs[p].ver[1].Manifest.editor.ok
              /\ pubs[p].ver[1].Manifest.slug.ok
              /\ pubs[p].ver[1].Manifest.version.ok
              /\ versDB.docs = {}

\* C8: for every Version returned by downloadVersion, the declared sha256
\* is the SHA-256 of all the bytes of the response body as transferred, and
\* size is the number of all the transferred bytes, those behind the tar
\* end-of-archive marker included.
C8_HashAndSizeCoverTheBody ==
    \A p \in DOMAIN pubs :
        (pubs[p].pc # "idle" /\ pubs[p].res[1].outcome = "ok") =>
            /\ pubs[p].res[1].ver[1].Sha256 =
                   [hex |-> [body |-> pubs[p].in[1].resp.body.id,
                             n |-> WireLen(pubs[p].in[1].resp.body)]]
            /\ pubs[p].res[1].ver[1].Size = WireLen(pubs[p].in[1].resp.body)

\* C9: downloadVersion fails on every response whose body is larger than
\* the 20 MiB cap, wherever the cap falls in the archive and whatever
\* sha256 was declared.
C9_OversizedBodyFails ==
    \A p \in DOMAIN pubs :
        (pubs[p].pc # "idle"
         /\ WireLen(pubs[p].in[1].resp.body) > 20 * 1024 * 1024) =>
            pubs[p].res[1].outcome # "ok"

\* C10: the tar_prefix of the Version of an accepted archive is the
\* top-level directory that all its regular-file and directory entries
\* share, and is empty when they do not all share one.
C10_TarPrefixIsSharedTopDir ==
    \A p \in DOMAIN pubs :
        (pubs[p].pc # "idle" /\ pubs[p].res[1].outcome = "ok") =>
            LET es == pubs[p].in[1].resp.body.entries
                seen == {i \in 1..Len(es) : es[i].typeflag \in {"reg", "dir"}}
                tops == {IF \E j \in 1..Len(es[i].name) : es[i].name[j] = "/"
                         THEN <<es[i].name[1]>> ELSE <<>> : i \in seen}
            IN pubs[p].res[1].ver[1].TarPrefix =
                   (IF Cardinality(tops) = 1 THEN CHOOSE top \in tops : TRUE
                    ELSE <<>>)

\* C11: when opts.Version is not in the dev channel downloadVersion succeeds
\* only if the version of the manifest is opts.Version; when it is in the
\* dev channel, only if both have the same MAJOR.MINOR.PATCH triple; and an
\* archive whose manifest has no version, or one that is no string, is
\* rejected with a 422.
C11_ManifestVersionReconciled ==
    \A p \in DOMAIN pubs :
        pubs[p].pc # "idle" =>
            \E opts \in {pubs[p].in[1].opts}, res \in {pubs[p].res[1]},
               es \in {pubs[p].in[1].resp.body.entries} :
                /\ res.outcome = "ok" =>
                      \E m \in {res.ver[1].Manifest} :
                          /\ m.version.ok
                          /\ IF GetVersionChannel(opts.Version) # Dev
                             THEN m.version.s = opts.Version
                             ELSE /\ ~SplitVersionPanics(m.version.s)
                                  /\ SplitVersion(m.version.s)
                                         = SplitVersion(opts.Version)
                /\ (/\ \E i \in 1..Len(es) :
                          IsManifestName(LogicalName(es[i].name))
                    /\ \A i \in 1..Len(es) :
                          IsManifestName(LogicalName(es[i].name)) =>
                              /\ es[i].content.kind = "object"
                              /\ ~es[i].content.version.ok)
                   => /\ res.outcome = "error"
                      /\ res.code = 422

\* C12: when the archive holds a package.json with a non-empty version P,
\* downloadVersion succeeds only if P is opts.Version (opts.Version not in
\* the dev channel) or has the same triple as opts.Version (dev channel).
C12_PackageVersionReconciled ==
    \A p \in DOMAIN pubs :
        (pubs[p].pc # "idle" /\ pubs[p].res[1].outcome = "ok") =>
            \E opts \in {pubs[p].in[1].opts},
               es \in {pubs[p].in[1].resp.body.entries} :
                \A i \in 1..Len(es) :
                    (/\ es[i].typeflag = "reg"
                     /\ LogicalName(es[i].name) = <<"package.json">>
                     /\ es[i].content.kind = "object"
                     /\ es[i].content.version.ok
                     /\ es[i].content.version.s # <<>>)
                    => IF GetVersionChannel(opts.Version) # Dev
                       THEN es[i].content.version.s = opts.Version
                       ELSE /\ ~SplitVersionPanics(es[i].content.version.s)
                            /\ SplitVersion(es[i].content.version.s)
                                   = SplitVersion(opts.Version)

\* C13: over valid versions, VersionLess(a, b) holds exactly when the
\* MAJOR.MINOR.PATCH triple of a is lexicographically smaller than that of b
\* with the components compared as numbers, and VersionLess is irreflexive
\* and transitive.
C13_VersionLessIsNumericOrder ==
    call.op = "VersionLess" =>
        LET Num(v) == [i \in 1..3 |-> parseInt(SplitVersion(v)[i])]
            NumLess(x, y) ==
                \/ x[1] < y[1]
                \/ x[1] = y[1] /\ x[2] < y[2]
                \/ x[1] = y[1] /\ x[2] = y[2] /\ x[3] < y[3]
        IN /\ call.res[2] <=> NumLess(Num(call.args[1]), Num(call.args[2]))
           /\ ~call.res[1]
           /\ (call.res[2] /\ call.res[3]) => call.res[4]

\* C14: every string validVersionReg accepts has exactly one of the forms
\* MAJOR.MINOR.PATCH, MAJOR.MINOR.PATCH-beta.N and MAJOR.MINOR.PATCH-dev.H;
\* GetVersionChannel returns Stable, Beta or Dev according to that form and
\* SplitVersion returns three strings of 1 to 5 decimal digits.
C14_AcceptedVersionsHaveOneForm ==
    (call.op = "Validate" /\ call.res # <<>>) =>
        LET v == call.args[1]
            triple == call.res[2]
            base == triple[1] \o <<".">> \o triple[2] \o <<".">> \o triple[3]
            rest(suffix) == SubSeq(v, Len(base) + Len(suffix) + 1, Len(v))
            Has(suffix, chars) ==
                /\ SubSeq(v, 1, Len(base) + Len(suffix)) = base \o suffix
                /\ rest(suffix) # <<>>
                /\ \A i \in 1..Len(rest(suffix)) : rest(suffix)[i] \in chars
            form == IF v = base THEN Stable
                    ELSE IF Has(betaSuffix, Digits) THEN Beta
                    ELSE IF Has(devSuffix, HexLower) THEN Dev
                    ELSE "none"
        IN /\ triple # <<>>
           /\ \A i \in 1..3 :
                 /\ Len(triple[i]) \in 1..5
                 /\ \A j \in 1..Len(triple[i]) : triple[i][j] \in Digits
           /\ form = call.res[1]

\* C15: a CreateOrUpdateApp call with the app fields and the editor of the
\* successful call before it returns updated = false and writes nothing:
\* the stored app and its updated_at are as they were.
C15_CreateOrUpdateAppIsIdempotent ==
    [][(/\ call.op = "CreateOrUpdateApp"
        /\ call'.op = "CreateOrUpdateApp"
        /\ call'.args = call.args)
       => /\ appsDB' = appsDB
          /\ call' # call => ~call'.res[1]]_vars

\* C16: the id of a stored app document is its slug in lower case, the
\* slug of the call that created it in lower case; and whatever slug casing
\* and type later CreateOrUpdateApp calls supply, the document keeps the
\* id, slug, type and created_at its creation gave it.
C16_AppIdentityIsFixedAtCreation ==
    [][/\ \A e \in appsDB' :
             /\ e.ID = ToLower(e.Slug)
             /\ \A d \in appsDB' : d.ID = e.ID => d = e
       /\ \A d \in appsDB :
             \E e \in appsDB' :
                 /\ e.ID = d.ID
                 /\ e.Slug = d.Slug
                 /\ e.Type = d.Type
                 /\ e.CreatedAt = d.CreatedAt
       /\ \A e \in appsDB' :
             (\A d \in appsDB : d.ID # e.ID) =>
                 /\ e.ID = ToLower(call'.args[1].Slug)
                 /\ e.Slug = e.ID
                 /\ e.Type = call'.args[1].Type
                 /\ e.CreatedAt = now]_vars

\* C16 witness: a stored app was updated by a call that supplied another
\* slug casing and another type than the stored ones.
C16_Witness ==
    /\ call.op = "CreateOrUpdateApp"
    /\ call.res = <<TRUE>>
    /\ \E d \in appsDB :
          /\ d.Rev >= 2
          /\ d.ID = ToLower(call.args[1].Slug)
          /\ d.Slug # call.args[1].Slug
          /\ d.Type # call.args[1].Type
          /\ d.CreatedAt < d.UpdatedAt

\* C17: a FindLatestVersion(s, Stable) that misses the cache returns the
\* stable Version stored for slug s whose triple is the greatest as numbers,
\* and ErrVersionNotFound when no stable Version is stored for s, whatever
\* Versions of other apps the versions database holds.
C17_LatestStableOfTheApp ==
    [][(FindLatestVersion(SlugN, Stable) /\ ~found'.hit) =>
          LET Num(v) == [i \in 1..3 |-> parseInt(SplitVersion(v)[i])]
              NumLess(x, y) ==
                  \/ x[1] < y[1]
                  \/ x[1] = y[1] /\ x[2] < y[2]
                  \/ x[1] = y[1] /\ x[2] = y[2] /\ x[3] < y[3]
              stable == {d \in versDB.docs :
                            /\ d.Slug = SlugN
                            /\ GetVersionChannel(d.Version) = Stable}
          IN IF stable = {}
             THEN found'.err = "ErrVersionNotFound" /\ found'.ver = <<>>
             ELSE /\ found'.err = ""
                  /\ \E d \in stable :
                        /\ found'.ver[1].Slug = d.Slug
                        /\ found'.ver[1].Version = d.Version
                        /\ \A e \in stable :
                              ~NumLess(Num(d.Version), Num(e.Version))]_vars

\* C18: the Version that FindLatestVersion returns carries neither the id
\* nor the revision of its document, and a call answered from the cache
\* returns the very value that the call which filled the cache returned
\* (every later call up to the next refill returns the value of the call
\* before it).
C18_LatestVersionHidesInternalFields ==
    [][(FindLatestVersion(SlugN, Stable) /\ found'.ver # <<>>) =>
          /\ found'.ver[1].ID = <<>>
          /\ found'.ver[1].Rev = 0
          /\ found'.hit => found'.ver = found.ver]_vars

C20_VersionsComposedByChannel ==
    found.op = "FindAppVersions" =>
        LET IsStable(v) == GetVersionChannel(v) = Stable
            IsBeta(v) == GetVersionChannel(v) \in {Stable, Beta}
            Composed(versions) ==
                CASE found.channel = Stable ->
                        versions.Beta = <<>> /\ versions.Dev = <<>>
                  [] found.channel = Beta ->
                        /\ versions.Dev = <<>>
                        /\ versions.Stable = SelectSeq(versions.Beta, IsStable)
                  [] OTHER ->
                        /\ versions.Stable = SelectSeq(versions.Dev, IsStable)
                        /\ versions.Beta = SelectSeq(versions.Dev, IsBeta)
        IN Composed(found.versions[1])

\* C21: at every moment the stable list that FindAppVersions(n, Dev) would
\* return is contained in the stable list that FindAppVersions(n, Beta)
\* would return, whether the calls are answered from the cache or from the
\* views, and the beta list of every returned result contains every element
\* of its stable list.
C21_StableListsAreNested ==
    LET Elements(list) == {list[i] : i \in DOMAIN list}
        Nested(dev, beta) ==
            Elements(dev.versions.Stable) \subseteq Elements(beta.versions.Stable)
    IN /\ Nested(FindAppVersionsResult(cacheVersionsList, versDB, SlugN, Dev, now),
                 FindAppVersionsResult(cacheVersionsList, versDB, SlugN, Beta, now))
       /\ found.op = "FindAppVersions" =>
             Elements(found.versions[1].Stable)
                \subseteq Elements(found.versions[1].Beta)

(***************************************************************************)
(* Claims about the list of apps.                                          *)
(***************************************************************************)

\* C22: GetAppsList returns, for every integer limit: no document whose id
\* starts with _design; at most K apps for a limit of K (at most 50 for the
\* limit 0, at most 200 for a greater limit, none for a negative one); and
\* the cursor -1 exactly when no app follows the last returned app in the
\* index.
C22_PageIsBoundedAndEndsWithMinusOne ==
    call.op = "GetAppsList" =>
        LET rows == call.args[1]
            K == call.args[2].Limit
            res == call.res[2]
            Cap == IF K = 0 THEN 50 ELSE IF K > 200 THEN 200
                   ELSE IF K < 0 THEN 0 ELSE K
            Position(id) == CHOOSE i \in DOMAIN rows : rows[i] = id
            Last == IF res = <<>> THEN call.args[2].Cursor
                    ELSE Position(res[Len(res)])
            Remains == \E i \in DOMAIN rows : i > Last /\ ~IsDesignID(rows[i])
        IN /\ call.res[3] = ""
           /\ \A i \in DOMAIN res : ~IsDesignID(res[i])
           /\ Len(res) <= Cap
           /\ call.res[1] = 0 - 1 <=> ~Remains

\* C23: on an unchanged database, the calls of GetAppsList with a fixed
\* limit from cursor 0, each with the cursor the call before returned, up to
\* the call that returns -1, return together every app of the index once
\* and in the order of the index, also when design documents are among the
\* rows of the index.
C23_PagesCoverTheIndexOnce ==
    (call.op = "GetAppsList" /\ call.res[3] = "" /\ call.res[1] = 0 - 1) =>
        LET IsApp(id) == ~IsDesignID(id)
        IN call.res[4] = SelectSeq(call.args[1], IsApp)

(***************************************************************************)
(* Claims about the views of the versions database.                        *)
(***************************************************************************)

\* C24: one versionViewQuery call sends at most one creation of the views and
\* at most two view queries; when the query sent after the creation fails,
\* with 404 or another status, the call returns that failure and sends
\* nothing more.
C24_OneCreationOneRetry ==
    \A g \in Threads :
        /\ queries[g].created <= 1
        /\ queries[g].asked <= 2
        /\ (queries[g].created = 1 /\ queries[g].asked = 2
            /\ queries[g].last # "200")
           => (queries[g].pc = "done" /\ queries[g].err = queries[g].last)

\* C28: when goroutines query the views of the same app at the same time
\* while its design document is not installed, every call whose queries the
\* store answers returns the rows: none returns an error because another
\* goroutine created the design document first.
C28_ConcurrentQueriesAllSucceed ==
    \A g \in Threads :
        (queries[g].pc = "done" /\ ~queries[g].fault) => queries[g].err = ""

\* C25: the beta view orders the versions by their triple as numbers, then a
\* stable release above the betas of its triple, then the betas by their
\* counter as a number: no two betas of one triple have equal keys, and a
\* FindLatestVersion on the beta channel that queries the view returns the
\* greatest version in this order (1.0.1-beta.10 rather than 1.0.1-beta.9).
C25_BetaViewOrder ==
    [][LET Rank(v) ==
               [i \in 1..3 |-> parseInt(SplitVersion(v)[i])]
               \o <<IF GetVersionChannel(v) = Stable THEN 1 ELSE 0,
                    IF GetVersionChannel(v) = Beta
                    THEN parseInt(split(v, betaSuffix)[2]) ELSE 0>>
           RankLess(x, y) ==
               \E i \in 1..5 : x[i] < y[i] /\ \A j \in 1..(i - 1) : x[j] = y[j]
           emitted(docs) == {d \in docs : GetVersionChannel(d.Version) # Dev}
       IN /\ \A d \in emitted(versDB'.docs), e \in emitted(versDB'.docs) :
                d # e => ViewKey(d, Beta) # ViewKey(e, Beta)
          /\ (FindLatestVersion(SlugN, Beta) /\ ~found'.hit
              /\ emitted(versDB.docs) # {})
             => /\ found'.err = ""
                /\ \A d \in emitted(versDB.docs) :
                      ~RankLess(Rank(found'.ver[1].Version),
                                Rank(d.Version))]_vars

(***************************************************************************)
(* Claims about the stored versions.                                       *)
(***************************************************************************)

\* C26: every Version document that CreateVersion wrote has the id made of
\* its stored slug in lower case, a dash and its stored version, whatever
\* the slug of the manifest and the slug of the app were.
C26_VersionIdIsSlugDashVersion ==
    \A d \in versDB.docs : d.ID = getVersionID(d.Slug, d.Version)

(***************************************************************************)
(* Claims about the spaces.                                                *)
(***************************************************************************)

\* C27: discovery is isolated per Space.  A version that FindLatestVersion
\* returns to a call on a space, and every version string of a list that
\* FindAppVersions returns to it, is a version of the versions database of
\* that space, in every interleaving of the calls on the two spaces.
C27_DiscoveryIsIsolatedPerSpace ==
    LET OwnVersions(space) == {d.Version : d \in VersDBOf(space).docs}
        Listed(versions) ==
            {versions.Stable[i] : i \in DOMAIN versions.Stable} \ {<<>>}
    IN /\ (found.op = "FindLatestVersion" /\ found.ver # <<>>)
             => found.ver[1].Version \in OwnVersions(found.space)
       /\ found.op = "FindAppVersions"
             => Listed(found.versions[1]) \subseteq OwnVersions(found.space)

(***************************************************************************)
(* Claims about the structure of the cache.                                *)
(***************************************************************************)

\* C29: whenever every Add, Get, Remove and RemoveOldest call made so far
\* has returned, the key map and the recency list of the cache hold the
\* same keys, no key is twice in the list, and a cache with MaxEntries
\* N > 0 holds at most N entries.
C29_MapAndListAgree ==
    (\A g \in Threads : pc[g] = "idle") =>
        /\ {c.ll[i].key : i \in DOMAIN c.ll} = c.cache
        /\ \A i \in DOMAIN c.ll, j \in DOMAIN c.ll :
              c.ll[i].key = c.ll[j].key => i = j
        /\ c.MaxEntries > 0 => Len(c.ll) <= c.MaxEntries

\* Every call has returned, the cache is full, a Get found its key and an
\* entry was removed after the clock moved.
C29_Witness ==
    /\ \A g \in Threads : pc[g] = "idle"
    /\ Len(c.ll) = c.MaxEntries
    /\ \E g \in Threads : ret[g].op = "Get" /\ ret[g].ok
    /\ \E i \in DOMAIN c.ll : c.ll[i].date > 0

(***************************************************************************)
(* Claims about the lists of versions.                                     *)
(***************************************************************************)

====
